---- MODULE Spec2Model ----
(***************************************************************************)
(* MarkLite: the PDF export of exportUtils (exportToPDF), as a state      *)
(* machine.  One export call runs: blank check, parse, style lookup,      *)
(* layout of the parsed elements one by one, footer pass, save dialog,    *)
(* write.                                                                  *)
(*                                                                         *)
(* Lengths are integers in hundredths of a millimetre (the unit of the    *)
(* jsPDF document is mm): every product of the source (size * 0.4 *       *)
(* lineHeight, n * lineH + 6, ...) is then an exact integer.  jsPDF's A4   *)
(* page is 841.89pt = 297.00008mm high, so a sum that equals the break     *)
(* threshold 262.00 exactly does not exceed it, here as in the source.    *)
(*                                                                         *)
(* A text is represented by the number of lines splitTextToSize wraps it  *)
(* to (at least 1); its characters are not modelled.                       *)
(***************************************************************************)
EXTENDS Integers, Sequences, FiniteSets, TLC

\* ---------------------------------------------------------------- bounds
MaxBlocks == 2          \* longest element sequence of the layout inputs
MaxCodeLines == 135     \* longest code block of the code-only inputs
MaxRuns == 2            \* export calls made one after the other
MaxDay == 2             \* calendar days the exports can fall on
MaxItems == 2           \* most items of one list of the parser inputs
MaxIndent == 3          \* deepest indent of the list-item inputs
MaxTasks == 1           \* most awaits of the application in flight at once

\* ------------------------------------------------------ page geometry
pageWidth == 21000
pageHeight == 29700
margin == 2000
footerHeight == 1500
maxWidth == pageWidth - margin * 2

Undefined == "undefined"

\* ------------------------------------------------------ configuration
Themes == {"dark", "light", "paper", "github"}
FontSizes == {"small", "medium", "large"}
FontFamilies == {"inter", "merriweather", "lora", "source-serif", "fira-sans"}

\* pdfFontSizes[fontSize]; lineHeight in tenths
pdfFontSizes(tier) ==
    CASE tier = "small"  -> [base |-> 10, h1 |-> 20, h2 |-> 16, h3 |-> 12, code |-> 9,  lineHeight |-> 14]
      [] tier = "medium" -> [base |-> 11, h1 |-> 22, h2 |-> 18, h3 |-> 14, code |-> 10, lineHeight |-> 15]
      [] tier = "large"  -> [base |-> 12, h1 |-> 24, h2 |-> 20, h3 |-> 16, code |-> 11, lineHeight |-> 16]
      [] OTHER -> Undefined

\* themeColors[theme], the six entries exportToPDF reads, each as hexToRgb gives it
themeColors(name) ==
    CASE name = "dark" ->
           [textPrimary |-> <<255, 255, 255>>, textSecondary |-> <<115, 115, 115>>,
            border |-> <<38, 38, 38>>, syntaxH1 |-> <<255, 255, 255>>,
            syntaxH2 |-> <<229, 229, 229>>, syntaxH3 |-> <<212, 212, 212>>]
      [] name = "light" ->
           [textPrimary |-> <<23, 23, 23>>, textSecondary |-> <<82, 82, 82>>,
            border |-> <<229, 229, 229>>, syntaxH1 |-> <<23, 23, 23>>,
            syntaxH2 |-> <<38, 38, 38>>, syntaxH3 |-> <<64, 64, 64>>]
      [] name = "paper" ->
           [textPrimary |-> <<61, 61, 61>>, textSecondary |-> <<107, 99, 82>>,
            border |-> <<212, 207, 194>>, syntaxH1 |-> <<61, 48, 41>>,
            syntaxH2 |-> <<92, 64, 51>>, syntaxH3 |-> <<107, 83, 68>>]
      [] name = "github" ->
           [textPrimary |-> <<31, 35, 40>>, textSecondary |-> <<101, 109, 118>>,
            border |-> <<208, 215, 222>>, syntaxH1 |-> <<31, 35, 40>>,
            syntaxH2 |-> <<31, 35, 40>>, syntaxH3 |-> <<31, 35, 40>>]
      [] OTHER -> Undefined

\* sizes.base * 0.4 * sizes.lineHeight, the line pitch of p, li, blockquote
baseLineH(sizes) == sizes.base * 4 * sizes.lineHeight
\* sizes.code * 0.4
codeLineH(sizes) == sizes.code * 40

\* ------------------------------------------------------------ elements
\* PDFElement.  lines: wrapped line count of text; code: per source line of a
\* pre, the wrapped line count; rows: per table row, its cells (a cell is the
\* wrapped line count of its text, 0 for the empty string).
Element(type, lines) ==
    [type |-> type, lines |-> lines, indent |-> 0, ordered |-> FALSE, index |-> 0,
     code |-> <<>>, rows |-> <<>>, hasHeader |-> FALSE]
ListItem(lines, indent, ordered, index) ==
    [Element("li", lines) EXCEPT !.indent = indent, !.ordered = ordered, !.index = index]
Pre(code) == [Element("pre", 0) EXCEPT !.code = code]
Table(rows, hasHeader) == [Element("table", 0) EXCEPT !.rows = rows, !.hasHeader = hasHeader]

\* ------------------------------------------------------- draw commands
\* Every command carries where it comes from: blk, the position in elements of
\* the element whose case emitted it (0 for the footer pass), and part, the
\* line or row of that element's loop (0 outside a loop).

\* pdf.text(lines, x, y): n lines starting at baseline y
Text(str, x, y, n, size, font, color, blk, part) ==
    [op |-> "text", str |-> str, x |-> x, y |-> y, n |-> n, size |-> size,
     font |-> font, color |-> color, blk |-> blk, part |-> part]
\* pdf.rect / pdf.roundedRect, style "F" (fill) or "S" (stroke)
Rect(x, y, w, h, style, color, blk, part) ==
    [op |-> "rect", x |-> x, y |-> y, w |-> w, h |-> h, style |-> style,
     color |-> color, blk |-> blk, part |-> part]
\* pdf.line(x1, y, x2, y) at line width lw (hundredths of mm)
Line(x1, y, x2, lw, color, blk, part) ==
    [op |-> "line", x |-> x1, y |-> y, x2 |-> x2, lw |-> lw, color |-> color,
     blk |-> blk, part |-> part]

\* ---------------------------------------------------------------- state
VARIABLES
    pc,         \* position of the export call
    html,       \* htmlContent: "" (empty), "  " (whitespace only) or "content"
    theme, fontSize, font,   \* arguments of the call
    elements,   \* parseHTMLForPDF(htmlContent)
    idx,        \* index of the next element of the for loop
    y,          \* the cursor
    pages,      \* the jsPDF document: per page, its draw commands in paint order
    today,      \* the calendar day new Date() gives
    written,    \* the documents handed to writeFile, in order
    logged,     \* console.error calls
    run,        \* number of the export call
    prev,       \* pages of the previous export call, <<>> if none
    \* the state of the AppContent component (src/src/App.tsx)
    filePath, content, originalContent,
    pendingFilePath, showUnsavedBeforeOpen,
    isLoading,
    toast,      \* toast.message
    closed,     \* appWindow.close() has been called
    disk,       \* the files read_file and save_file work on: path -> content
    tasks       \* the awaits in flight: one record per suspended async call

app == <<filePath, content, originalContent, pendingFilePath, showUnsavedBeforeOpen,
         isLoading, toast, closed, disk, tasks>>

vars == <<pc, html, theme, fontSize, font, elements, idx, y, pages, today,
          written, logged, run, prev, app>>

\* ------------------------------------------------------- layout helpers
\* The cursor and the document while one element is rendered.
Cursor(yy, pgs) == [y |-> yy, pages |-> pgs]

BreakLimit == pageHeight - margin - footerHeight

\* checkPageBreak(height)
checkPageBreak(c, height) ==
    IF c.y + height > BreakLimit
    THEN Cursor(margin, Append(c.pages, <<>>))
    ELSE c

\* mutant of draw: the command is painted first on the page
drawFirst(c, cmd) == [c EXCEPT !.pages[Len(c.pages)] = <<cmd>> \o @]

\* a draw call: appended to the current page (the last one during layout)
draw(c, cmd) == [c EXCEPT !.pages[Len(c.pages)] = Append(@, cmd)]
\* mutant of advance: a cursor moved below the limit starts a new page
advanceOntoNewPage(c, dy) ==
    IF c.y + dy > BreakLimit THEN [y |-> margin, pages |-> Append(c.pages, <<>>)]
    ELSE [c EXCEPT !.y = @ + dy]
\* y += dy
advance(c, dy) == [c EXCEPT !.y = @ + dy]

\* ------------------------------------------------------ element renderers
\* Each takes the cursor c, the element e, its position k in elements, the
\* resolved sizes and colors, and gives the cursor after the case's body.

\* case 'h1'
renderH1(c, e, k, sizes, colors) ==
    LET c1 == advance(checkPageBreak(c, 1500), 800)
        c2 == draw(c1, Text(<<"text">>, margin, c1.y, e.lines, sizes.h1, "bold",
                            colors.syntaxH1, k, 0))
        c3 == advance(c2, e.lines * (sizes.h1 * 40) + 300)
        c4 == draw(c3, Line(margin, c3.y, pageWidth - margin, 50, colors.border, k, 0))
    IN  advance(c4, 500)

\* case 'h2'
renderH2(c, e, k, sizes, colors) ==
    LET c1 == advance(checkPageBreak(c, 1200), 600)
        c2 == draw(c1, Text(<<"text">>, margin, c1.y, e.lines, sizes.h2, "bold",
                            colors.syntaxH2, k, 0))
        c3 == advance(c2, e.lines * (sizes.h2 * 40) + 200)
        c4 == draw(c3, Line(margin, c3.y, pageWidth - margin, 30, colors.border, k, 0))
    IN  advance(c4, 400)

\* mutant of renderH3: a thin rule is drawn beneath the text
renderH3WithRule(c, e, k, sizes, colors) ==
    LET c1 == advance(checkPageBreak(c, 1000), 400)
        c2 == draw(c1, Text(<<"text">>, margin, c1.y, e.lines, sizes.h3, "bold",
                            colors.syntaxH3, k, 0))
        c3 == advance(c2, e.lines * (sizes.h3 * 40) + 300)
    IN  draw(c3, Line(margin, c3.y, pageWidth - margin, 20, colors.border, k, 0))

\* case 'h3' (h3..h6): no rule beneath
renderH3(c, e, k, sizes, colors) ==
    LET c1 == advance(checkPageBreak(c, 1000), 400)
        c2 == draw(c1, Text(<<"text">>, margin, c1.y, e.lines, sizes.h3, "bold",
                            colors.syntaxH3, k, 0))
    IN  advance(c2, e.lines * (sizes.h3 * 40) + 300)

\* The loops over lines and rows run from index lo to index hi; a range of more
\* than one index is run as its first half and then, from the cursor that
\* leaves, its second half: the same iterations in the same order.
Only(S) == CHOOSE x \in S : TRUE

\* mutant of paragraphLine: the line is placed without the fit check
paragraphLineNoCheck(c, j, k, sizes, colors) ==
    advance(draw(c, Text(<<"line", j>>, margin, c.y, 1, sizes.base, "normal",
                         colors.textPrimary, k, j)),
            baseLineH(sizes))

\* case 'p', the loop body: checkPageBreak(lineH); text(line); y += lineH
paragraphLine(c, j, k, sizes, colors) ==
    LET lineH == baseLineH(sizes)
        c1 == checkPageBreak(c, lineH)
        c2 == draw(c1, Text(<<"line", j>>, margin, c1.y, 1, sizes.base, "normal",
                            colors.textPrimary, k, j))
    IN  advance(c2, lineH)

\* case 'p': for (const line of lines) { ... }
RECURSIVE paragraphLines(_, _, _, _, _, _)
paragraphLines(c, lo, hi, k, sizes, colors) ==
    IF lo > hi THEN c
    ELSE IF lo = hi THEN paragraphLine(c, lo, k, sizes, colors)
    ELSE LET mid == (lo + hi) \div 2
         IN  Only({ paragraphLines(half, mid + 1, hi, k, sizes, colors) :
                      half \in { paragraphLines(c, lo, mid, k, sizes, colors) } })

renderP(c, e, k, sizes, colors) ==
    advance(paragraphLines(c, 1, e.lines, k, sizes, colors), 300)

\* mutant of renderLi: the fit check is made after the bullet is drawn
renderLiBreakAfterBullet(c, e, k, sizes, colors) ==
    LET indent == (IF e.indent = 0 THEN 1 ELSE e.indent) * 500
        bullet == IF e.ordered THEN <<"ordinal", e.index>> ELSE <<"bullet">>
        lineH == baseLineH(sizes)
        c1 == draw(c, Text(bullet, margin + indent - 400, c.y, 1, sizes.base, "normal",
                           colors.textPrimary, k, 0))
        c2 == checkPageBreak(c1, e.lines * lineH)
        c3 == draw(c2, Text(<<"text">>, margin + indent + 200, c2.y, e.lines, sizes.base,
                            "normal", colors.textPrimary, k, 0))
    IN  advance(c3, e.lines * lineH + 100)

\* case 'li'
renderLi(c, e, k, sizes, colors) ==
    LET indent == (IF e.indent = 0 THEN 1 ELSE e.indent) * 500
        bullet == IF e.ordered THEN <<"ordinal", e.index>> ELSE <<"bullet">>
        lineH == baseLineH(sizes)
        c1 == checkPageBreak(c, e.lines * lineH)
        c2 == draw(c1, Text(bullet, margin + indent - 400, c1.y, 1, sizes.base, "normal",
                            colors.textPrimary, k, 0))
        c3 == draw(c2, Text(<<"text">>, margin + indent + 200, c1.y, e.lines, sizes.base,
                            "normal", colors.textPrimary, k, 0))
    IN  advance(c3, e.lines * lineH + 100)

\* mutant of preSplitLine: the fit check asks for lineH only
preSplitLineTightCheck(c, j, code, k, sizes) ==
    LET lineH == codeLineH(sizes)
        c1 == checkPageBreak(c, lineH)
        c2 == draw(c1, Rect(margin, c1.y - 200, maxWidth, lineH + 200, "F",
                            <<245, 245, 245>>, k, j))
        c3 == draw(c2, Text(<<"code", j>>, margin + 300, c1.y, code[j], sizes.code,
                            "courier", <<60, 60, 60>>, k, j))
    IN  advance(c3, code[j] * lineH)

\* mutant of preSplitLine: the fill is drawn for the first line of the block
\* and for the first line after a page break only
preSplitLineRectPerPage(c, j, code, k, sizes) ==
    LET lineH == codeLineH(sizes)
        c1 == checkPageBreak(c, lineH + 400)
        c2 == IF j = 1 \/ c1 # c
              THEN draw(c1, Rect(margin, c1.y - 200, maxWidth, lineH + 200, "F",
                                 <<245, 245, 245>>, k, j))
              ELSE c1
        c3 == draw(c2, Text(<<"code", j>>, margin + 300, c1.y, code[j], sizes.code,
                            "courier", <<60, 60, 60>>, k, j))
    IN  advance(c3, code[j] * lineH)

\* case 'pre', the branch taken when the block is taller than a page, the loop
\* body: checkPageBreak(lineH + 4); rect; text(wrapped); y += wrapped.length * lineH
preSplitLine(c, j, code, k, sizes) ==
    LET lineH == codeLineH(sizes)
        c1 == checkPageBreak(c, lineH + 400)
        c2 == draw(c1, Rect(margin, c1.y - 200, maxWidth, lineH + 200, "F",
                            <<245, 245, 245>>, k, j))
        c3 == draw(c2, Text(<<"code", j>>, margin + 300, c1.y, code[j], sizes.code,
                            "courier", <<60, 60, 60>>, k, j))
    IN  advance(c3, code[j] * lineH)

RECURSIVE preSplitLines(_, _, _, _, _, _)
preSplitLines(c, lo, hi, code, k, sizes) ==
    IF lo > hi THEN c
    ELSE IF lo = hi THEN preSplitLine(c, lo, code, k, sizes)
    ELSE LET mid == (lo + hi) \div 2
         IN  Only({ preSplitLines(half, mid + 1, hi, code, k, sizes) :
                      half \in { preSplitLines(c, lo, mid, code, k, sizes) } })

\* case 'pre', the other branch: the text loop; c.y is codeY, running from y + 2
RECURSIVE preWholeLines(_, _, _, _, _, _)
preWholeLines(c, lo, hi, code, k, sizes) ==
    IF lo > hi THEN c
    ELSE IF lo = hi
    THEN advance(draw(c, Text(<<"code", lo>>, margin + 300, c.y, code[lo], sizes.code,
                              "courier", <<60, 60, 60>>, k, lo)),
                 code[lo] * codeLineH(sizes))
    ELSE LET mid == (lo + hi) \div 2
         IN  Only({ preWholeLines(half, mid + 1, hi, code, k, sizes) :
                      half \in { preWholeLines(c, lo, mid, code, k, sizes) } })

preBlockHeight(e, sizes) == Len(e.code) * codeLineH(sizes) + 600
\* mutant of preTooTall: the top margin is not taken off the page height
preTooTallBelowLimit(e, sizes) == preBlockHeight(e, sizes) > pageHeight - margin - footerHeight
\* blockHeight > pageHeight - margin * 2 - footerHeight
preTooTall(e, sizes) == preBlockHeight(e, sizes) > pageHeight - margin * 2 - footerHeight

renderPre(c, e, k, sizes, colors) ==
    IF preTooTall(e, sizes)
    THEN advance(preSplitLines(c, 1, Len(e.code), e.code, k, sizes), 300)
    ELSE LET blockHeight == preBlockHeight(e, sizes)
             c1 == checkPageBreak(c, blockHeight)
             c2 == draw(c1, Rect(margin, c1.y - 200, maxWidth, blockHeight, "F",
                                 <<245, 245, 245>>, k, 0))
             c3 == preWholeLines(advance(c2, 200), 1, Len(e.code), e.code, k, sizes)
         IN  Cursor(c1.y + blockHeight + 300, c3.pages)

\* case 'blockquote'
renderBlockquote(c, e, k, sizes, colors) ==
    LET lineH == baseLineH(sizes)
        blockHeight == e.lines * lineH + 400
        c1 == checkPageBreak(c, blockHeight)
        c2 == draw(c1, Rect(margin, c1.y - 200, 200, blockHeight, "F", <<100, 100, 100>>, k, 0))
        c3 == draw(c2, Rect(margin + 300, c1.y - 200, maxWidth - 300, blockHeight, "F",
                            <<250, 250, 250>>, k, 0))
        c4 == draw(c3, Text(<<"text">>, margin + 600, c1.y + 200, e.lines, sizes.base,
                            "italic", colors.textSecondary, k, 0))
    IN  advance(c4, blockHeight + 300)

\* case 'hr'
renderHr(c, e, k, sizes, colors) ==
    LET c1 == advance(checkPageBreak(c, 1000), 500)
        c2 == draw(c1, Line(margin, c1.y, pageWidth - margin, 50, colors.border, k, 0))
    IN  advance(c2, 500)

\* case 'table'
Max(S) == CHOOSE m \in S : \A x \in S : x <= m
\* Math.max(...rows.map(r => r.length))
colCount(rows) == Max({Len(rows[r]) : r \in 1..Len(rows)})
\* (maxWidth - cellPadding * 2) / colCount, to the hundredth of a millimetre
colWidth(rows) == (maxWidth - 400) \div colCount(rows)
\* sizes.base * 0.4 * sizes.lineHeight + cellPadding * 2
rowHeight(sizes) == baseLineH(sizes) + 400

\* mutant of tableCell: a cell the row does not have is not drawn
tableCellSkipMissing(c, col, r, rows, isHeader, k, sizes, colors) ==
    LET cellX == margin + (col - 1) * colWidth(rows)
        c1 == draw(c, Rect(cellX, c.y - 200, colWidth(rows), rowHeight(sizes), "S",
                           colors.border, k, r))
    IN  IF col > Len(rows[r]) THEN c
        ELSE draw(c1, Text(IF rows[r][col] > 0 THEN <<"cell", r, col>> ELSE <<"empty", r, col>>,
                           cellX + 200, c.y + 200, 1, sizes.base,
                           IF isHeader THEN "bold" ELSE "normal", colors.textPrimary, k, r))

\* the body of the column loop: rect 'S'; text(wrapped[0] || '')
tableCell(c, col, r, rows, isHeader, k, sizes, colors) ==
    LET cellX == margin + (col - 1) * colWidth(rows)
        shown == col <= Len(rows[r]) /\ rows[r][col] > 0
        c1 == draw(c, Rect(cellX, c.y - 200, colWidth(rows), rowHeight(sizes), "S",
                           colors.border, k, r))
    IN  draw(c1, Text(IF shown THEN <<"cell", r, col>> ELSE <<"empty", r, col>>,
                      cellX + 200, c.y + 200, 1, sizes.base,
                      IF isHeader THEN "bold" ELSE "normal", colors.textPrimary, k, r))

\* for (colIdx = 0; colIdx < colCount; colIdx++) { ... }
RECURSIVE tableCells(_, _, _, _, _, _, _, _, _)
tableCells(c, lo, hi, r, rows, isHeader, k, sizes, colors) ==
    IF lo > hi THEN c
    ELSE IF lo = hi THEN tableCell(c, lo, r, rows, isHeader, k, sizes, colors)
    ELSE LET mid == (lo + hi) \div 2
         IN  Only({ tableCells(half, mid + 1, hi, r, rows, isHeader, k, sizes, colors) :
                      half \in { tableCells(c, lo, mid, r, rows, isHeader, k, sizes, colors) } })

\* mutant of tableRow: the row is drawn without the fit check
tableRowNoCheck(c, r, e, k, sizes, colors) ==
    LET isHeader == e.hasHeader /\ r = 1
        c2 == IF isHeader
              THEN draw(c, Rect(margin, c.y - 200, maxWidth, rowHeight(sizes), "F",
                                <<245, 245, 245>>, k, r))
              ELSE c
        c3 == tableCells(c2, 1, colCount(e.rows), r, e.rows, isHeader, k, sizes, colors)
    IN  advance(c3, rowHeight(sizes))

\* the body of the row loop: checkPageBreak(rowHeight); header fill; cells; y += rowHeight
tableRow(c, r, e, k, sizes, colors) ==
    LET isHeader == e.hasHeader /\ r = 1
        c1 == checkPageBreak(c, rowHeight(sizes))
        c2 == IF isHeader
              THEN draw(c1, Rect(margin, c1.y - 200, maxWidth, rowHeight(sizes), "F",
                                 <<245, 245, 245>>, k, r))
              ELSE c1
        c3 == tableCells(c2, 1, colCount(e.rows), r, e.rows, isHeader, k, sizes, colors)
    IN  advance(c3, rowHeight(sizes))

\* for (rowIdx = 0; rowIdx < rows.length; rowIdx++) { ... }
RECURSIVE tableRows(_, _, _, _, _, _, _)
tableRows(c, lo, hi, e, k, sizes, colors) ==
    IF lo > hi THEN c
    ELSE IF lo = hi THEN tableRow(c, lo, e, k, sizes, colors)
    ELSE LET mid == (lo + hi) \div 2
         IN  Only({ tableRows(half, mid + 1, hi, e, k, sizes, colors) :
                      half \in { tableRows(c, lo, mid, e, k, sizes, colors) } })

renderTable(c, e, k, sizes, colors) ==
    IF Len(e.rows) = 0 THEN c
    ELSE advance(tableRows(c, 1, Len(e.rows), e, k, sizes, colors), 300)

\* -------------------------------------------------------------- footer
\* mutant of footerOf: the page stamp counts from 0
footerOfZeroBased(i, pageCount, date) ==
    << Text(<<"Exported from MarkLite on", date>>, margin, pageHeight - 1000,
            1, 8, "normal", <<150, 150, 150>>, 0, i),
       Text(<<"Page", i - 1, pageCount>>, pageWidth - margin - 2000, pageHeight - 1000,
            1, 8, "normal", <<150, 150, 150>>, 0, i) >>

\* mutant of footerOf: the stamps are set in the font family of the call
footerOfInFamily(i, pageCount, date) ==
    << Text(<<"Exported from MarkLite on", date>>, margin, pageHeight - 1000,
            1, 8, font, <<150, 150, 150>>, 0, i),
       Text(<<"Page", i, pageCount>>, pageWidth - margin - 2000, pageHeight - 1000,
            1, 8, font, <<150, 150, 150>>, 0, i) >>

\* the two stamps of page i
footerOf(i, pageCount, date) ==
    << Text(<<"Exported from MarkLite on", date>>, margin, pageHeight - 1000,
            1, 8, "normal", <<150, 150, 150>>, 0, i),
       Text(<<"Page", i, pageCount>>, pageWidth - margin - 2000, pageHeight - 1000,
            1, 8, "normal", <<150, 150, 150>>, 0, i) >>

\* mutant of addFooters: the loop stops before the last page (i < pageCount)
addFootersSkipLast(pgs, pageCount, date) ==
    [i \in 1..Len(pgs) |-> IF i < pageCount THEN pgs[i] \o footerOf(i, pageCount, date)
                                             ELSE pgs[i]]

\* mutant of addFooters: the stamps are painted before the commands of the page
addFootersFirst(pgs, pageCount, date) ==
    [i \in 1..Len(pgs) |-> IF i <= pageCount THEN footerOf(i, pageCount, date) \o pgs[i]
                                             ELSE pgs[i]]

\* for (i = 1..pageCount) { setPage(i); text(date stamp); text(page stamp) }
addFooters(pgs, pageCount, date) ==
    [i \in 1..Len(pgs) |-> IF i <= pageCount THEN pgs[i] \o footerOf(i, pageCount, date)
                                             ELSE pgs[i]]

\* -------------------------------------------------------------- inputs
Ones(n) == [j \in 1..n |-> 1]

\* The elements the layout inputs are built from: every type, each with a
\* short instance and one tall enough to reach or cross the end of a page.
BlockChoices ==
    { Element("h1", 1), Element("h2", 1), Element("h3", 1),
      Element("p", 1), Element("p", 40),
      ListItem(2, 2, TRUE, 3), ListItem(40, 1, FALSE, 2),
      Pre(<<1, 2, 1>>), Pre(Ones(70)),
      Element("blockquote", 33),
      Table(<< <<1, 2>>, <<1>> >>, TRUE), Table([r \in 1..25 |-> <<1>>], FALSE),
      Element("hr", 0) }

RECURSIVE SeqsUpTo(_, _)
SeqsUpTo(S, n) ==
    IF n = 0 THEN { <<>> }
    ELSE LET shorter == SeqsUpTo(S, n - 1)
         IN  shorter \cup { Append(s, e) : s \in { t \in shorter : Len(t) = n - 1 }, e \in S }

\* layout inputs: element sequences at every size tier
LayoutInputs ==
    { [html |-> "content", theme |-> "light", fontSize |-> fs, font |-> "inter", elements |-> es] :
        fs \in FontSizes, es \in SeqsUpTo(BlockChoices, MaxBlocks) }

\* configuration inputs: every theme, tier and font, one unknown value of each
\* closed set included, on short documents
ConfigDocs ==
    { <<>>, <<Element("hr", 0)>>, <<Element("p", 1)>>, <<Element("h1", 1)>>,
      <<Element("hr", 0), Element("p", 1)>> }
ConfigInputs ==
    { [html |-> "content", theme |-> th, fontSize |-> fs, font |-> ff, elements |-> es] :
        th \in Themes \cup {"solarized"}, fs \in FontSizes \cup {"huge"},
        ff \in FontFamilies, es \in ConfigDocs }

\* code-only inputs: one pre of n one-line source lines
CodeLens == (1..MaxCodeLines) \cup {500}
CodeInputs ==
    { [html |-> "content", theme |-> "light", fontSize |-> fs, font |-> "inter",
       elements |-> <<Pre(Ones(n))>>] : fs \in FontSizes, n \in CodeLens }

\* empty or whitespace-only htmlContent, of which the parser makes no element
BlankInputs ==
    { [html |-> h, theme |-> th, fontSize |-> fs, font |-> "inter", elements |-> <<>>] :
        h \in {"", "  "}, th \in Themes, fs \in FontSizes }

\* list-item inputs: one item at every indent the parser can give it, 0 for
\* an <li> that is not the child of a list
IndentInputs ==
    { [html |-> "content", theme |-> "light", fontSize |-> fs, font |-> "inter",
       elements |-> <<ListItem(2, n, o, 1)>>] :
        fs \in FontSizes, n \in 0..MaxIndent, o \in BOOLEAN }

Inputs == LayoutInputs \cup ConfigInputs \cup CodeInputs \cup BlankInputs \cup IndentInputs

\* ---------------------------------------------------------------- Init
\* useState initial values of AppContent (lines 36-59), no await in flight
Null == "null"
Paths == {"a.md", "b.md"}
\* what the editor can hold besides the empty text of the start
Contents == {"x", "y"}
AppStarted(files) ==
    /\ filePath = Null /\ content = "" /\ originalContent = ""
    /\ pendingFilePath = Null /\ showUnsavedBeforeOpen = FALSE
    /\ isLoading = FALSE /\ toast = "" /\ closed = FALSE
    /\ disk = files /\ tasks = {}
FilesAtStart == [p \in Paths |-> IF p = "a.md" THEN "x" ELSE "y"]

Called(in) ==
    /\ pc = "called"
    /\ html = in.html /\ theme = in.theme /\ fontSize = in.fontSize /\ font = in.font
    /\ elements = in.elements
    /\ idx = 0 /\ y = 0 /\ pages = <<>>
    /\ today = 1 /\ written = <<>> /\ logged = 0 /\ run = 1 /\ prev = <<>>
    /\ AppStarted(FilesAtStart)

Init == \E in \in Inputs : Called(in)

\* ------------------------------------------------------------- actions
\* htmlContent.trim()
trim(h) == IF h = "  " THEN "" ELSE h
\* mutant of isBlank: the test without the trim
isBlankNoTrim(h) == h = ""

\* !htmlContent || htmlContent.trim() === ''
isBlank(h) == h = "" \/ trim(h) = ""

\* new jsPDF(...): a document of one empty page; let y = margin
newDocument == << <<>> >>
\* mutant of startY: the cursor is not reset, it keeps the value the call
\* before left
startYStale == y
startY == margin

args == <<html, theme, fontSize, font, elements>>
env == <<today, written, logged, run, prev>>

\* lines 530-562: the blank check, the parse, the style lookup, new jsPDF
Start ==
    /\ pc = "called"
    /\ IF isBlank(html)
       THEN \* console.error('No HTML content to export!'); return
            /\ logged' = logged + 1
            /\ pc' = "returned"
            /\ UNCHANGED <<idx, y, pages>>
       ELSE IF theme \notin Themes
       THEN \* colors is undefined: colors.textPrimary throws
            /\ pc' = "failed"
            /\ UNCHANGED <<idx, y, pages, logged>>
       ELSE /\ pc' = "layout"
            /\ idx' = 1 /\ y' = startY /\ pages' = newDocument
            /\ UNCHANGED logged
    /\ UNCHANGED <<app, args, today, written, run, prev>>

\* mutant of AtElement: the loop stops before the last element
AtElementButLast(type) ==
    pc = "layout" /\ idx < Len(elements) /\ elements[idx].type = type

AtElement(type) ==
    pc = "layout" /\ idx <= Len(elements) /\ elements[idx].type = type

\* the case body ran to its break: next iteration
Placed(c) ==
    /\ y' = c.y /\ pages' = c.pages /\ idx' = idx + 1
    /\ UNCHANGED <<app, pc, args, env>>

\* sizes is undefined and the case body read a field of it: TypeError, after
\* the statements that precede the read
Thrown(c) ==
    /\ y' = c.y /\ pages' = c.pages
    /\ pc' = "failed"
    /\ UNCHANGED <<app, idx, args, env>>

\* a case body that reads sizes
Outcome(rendered, beforeRead) ==
    IF fontSize \in FontSizes THEN Placed(rendered) ELSE Thrown(beforeRead)

here == Cursor(y, pages)
el == elements[idx]
sz == pdfFontSizes(fontSize)
rgb == themeColors(theme)

LayoutH1 ==
    /\ AtElement("h1")
    /\ Outcome(renderH1(here, el, idx, sz, rgb), advance(checkPageBreak(here, 1500), 800))
LayoutH2 ==
    /\ AtElement("h2")
    /\ Outcome(renderH2(here, el, idx, sz, rgb), advance(checkPageBreak(here, 1200), 600))
LayoutH3 ==
    /\ AtElement("h3")
    /\ Outcome(renderH3(here, el, idx, sz, rgb), advance(checkPageBreak(here, 1000), 400))
LayoutP ==
    /\ AtElement("p")
    /\ Outcome(renderP(here, el, idx, sz, rgb), here)
LayoutLi ==
    /\ AtElement("li")
    /\ Outcome(renderLi(here, el, idx, sz, rgb), here)
LayoutPre ==
    /\ AtElement("pre")
    /\ Outcome(renderPre(here, el, idx, sz, rgb), here)
LayoutBlockquote ==
    /\ AtElement("blockquote")
    /\ Outcome(renderBlockquote(here, el, idx, sz, rgb), here)
LayoutTable ==
    /\ AtElement("table")
    /\ Outcome(renderTable(here, el, idx, sz, rgb), here)
\* 'hr' reads no field of sizes
LayoutHr ==
    /\ AtElement("hr")
    /\ Placed(renderHr(here, el, idx, sz, rgb))

\* mutant of Footer: the pages are handed to writeFile as the layout leaves
\* them, before the footer pass
FooterAfterWrite ==
    /\ pc = "layout" /\ idx > Len(elements)
    /\ written' = Append(written, pages)
    /\ pages' = addFooters(pages, Len(pages), today)
    /\ pc' = "dialog"
    /\ UNCHANGED <<app, args, idx, y, today, logged, run, prev>>

\* lines 786-804: the footer pass over the finished layout, then pdf.output
Footer ==
    /\ pc = "layout" /\ idx > Len(elements)
    /\ pages' = addFooters(pages, Len(pages), today)
    /\ pc' = "dialog"
    /\ UNCHANGED <<app, args, idx, y, today, written, logged, run, prev>>

\* lines 807-812: await save(...): a path, or null when the dialog is cancelled
SaveDialog ==
    /\ pc = "dialog"
    /\ \E target \in {"path", "null"} :
          pc' = IF target = "path" THEN "write" ELSE "returned"
    /\ UNCHANGED <<app, args, idx, y, pages, env>>

\* line 813: await writeFile(filePath, ...)
WriteFile ==
    /\ pc = "write"
    /\ written' = Append(written, pages)
    /\ pc' = "returned"
    /\ UNCHANGED <<app, args, idx, y, pages, today, logged, run, prev>>

Layout ==
    \/ LayoutH1 \/ LayoutH2 \/ LayoutH3 \/ LayoutP \/ LayoutLi \/ LayoutPre
    \/ LayoutBlockquote \/ LayoutTable \/ LayoutHr

Next == Start \/ Layout \/ Footer \/ SaveDialog \/ WriteFile

Spec == Init /\ [][Next]_vars

\* exportToPDF has no await before save(...): once called, it runs through the
\* blank check, the layout loop and the footer pass without being suspended.
SpecLive == Spec /\ WF_vars(Start) /\ WF_vars(Layout) /\ WF_vars(Footer)

\* --------------------------------------------------- repeated exports
\* The export is called again with the same arguments once the call before it
\* has returned or thrown.  prev keeps the document of that call; idx, y and
\* pages are locals of the call that ended, and Start sets its own.  The next
\* call runs on the same day or on a later one.
Rerun ==
    /\ pc \in {"returned", "failed"}
    /\ run < MaxRuns
    /\ run' = run + 1
    /\ prev' = pages
    /\ pc' = "called"
    /\ \E date \in today..MaxDay : today' = date
    /\ UNCHANGED <<app, args, idx, y, pages, written, logged>>

RepeatInputs ==
    { in \in Inputs : Len(in.elements) <= 1 /\ in.font = "inter"
                       /\ \A j \in 1..Len(in.elements) : Len(in.elements[j].code) <= 70 }

InitRepeat == \E in \in RepeatInputs : Called(in)

NextRepeat == Next \/ Rerun

SpecRepeat == InitRepeat /\ [][NextRepeat]_vars


\* ------------------------------------------ exports in other font families
\* The export is called again on the same day with another font family and
\* the other arguments as they were.
RerunFont ==
    /\ pc \in {"returned", "failed"}
    /\ run < MaxRuns
    /\ run' = run + 1
    /\ prev' = pages
    /\ pc' = "called"
    /\ \E family \in FontFamilies \ {font} : font' = family
    /\ UNCHANGED <<app, html, theme, fontSize, elements, idx, y, pages, today, written, logged>>

FontInputs == { in \in LayoutInputs : Len(in.elements) <= 1 }

InitFont == \E in \in FontInputs : Called(in)

NextFont == Next \/ RerunFont

SpecFont == InitFont /\ [][NextFont]_vars

\* ------------------------------------------------------------ the parser
\* parseHTMLForPDF.  For the parser htmlContent is given as the DOM that
\* DOMParser builds of it: the child nodes of the wrapping <div>.  A node is
\* a text node (tag "#text", its characters a sequence of tokens, each token
\* a tuple of numbers and Space the whitespace token) or an element with its
\* child nodes.
Space == <<0>>
TextNode(chars) == [tag |-> "#text", chars |-> chars, kids |-> <<>>]
Elem(tag, kids) == [tag |-> tag, chars |-> <<>>, kids |-> kids]

\* Node.textContent: the characters of the text nodes beneath, in document order
RECURSIVE textContent(_)
textContent(node) ==
    IF node.tag = "#text" THEN node.chars
    ELSE LET RECURSIVE of(_)
             of(i) == IF i > Len(node.kids) THEN <<>>
                      ELSE textContent(node.kids[i]) \o of(i + 1)
         IN  of(1)

\* String.prototype.trim on a sequence of tokens
RECURSIVE trimTokens(_)
trimTokens(t) ==
    IF t = <<>> THEN t
    ELSE IF Head(t) = Space THEN trimTokens(Tail(t))
    ELSE IF t[Len(t)] = Space THEN trimTokens(SubSeq(t, 1, Len(t) - 1))
    ELSE t

\* a PDFElement the parser pushes; the optional fields it does not set are Undefined
PDFElement(type, text) ==
    [type |-> type, text |-> text, indent |-> Undefined, ordered |-> Undefined,
     index |-> Undefined, rows |-> Undefined, hasHeader |-> Undefined]

\* the elements beneath a node, in document order
RECURSIVE descendants(_)
descendants(node) ==
    LET RECURSIVE of(_)
        of(i) == IF i > Len(node.kids) THEN <<>>
                 ELSE <<node.kids[i]>> \o descendants(node.kids[i]) \o of(i + 1)
    IN  of(1)

\* node.querySelectorAll(tags)
querySelectorAll(node, tags) ==
    LET Matches(n) == n.tag \in tags
    IN  SelectSeq(descendants(node), Matches)
\* node.querySelector(tag): the first match, <<>> for null
querySelector(node, tag) ==
    IF querySelectorAll(node, {tag}) = <<>> THEN <<>>
    ELSE << querySelectorAll(node, {tag})[1] >>

\* tr => cells: tr.querySelectorAll('th, td'), cell.textContent?.trim() || ''
cellsOf(tr) ==
    [c \in DOMAIN querySelectorAll(tr, {"th", "td"}) |->
        trimTokens(textContent(querySelectorAll(tr, {"th", "td"})[c]))]
rowsOf(trs) == [r \in DOMAIN trs |-> cellsOf(trs[r])]

\* the tr elements beneath a node for which tr.closest('thead') is null
RECURSIVE trsOutsideThead(_)
trsOutsideThead(node) ==
    LET RECURSIVE of(_)
        of(i) == IF i > Len(node.kids) THEN <<>>
                 ELSE (IF node.kids[i].tag = "thead" THEN <<>>
                       ELSE (IF node.kids[i].tag = "tr" THEN <<node.kids[i]>> ELSE <<>>)
                              \o trsOutsideThead(node.kids[i]))
                        \o of(i + 1)
    IN  of(1)

NonEmpty(seq) == seq # <<>>

\* case 'table'
tableElement(node) ==
    LET thead == querySelector(node, "thead")
        hasHeader == thead # <<>>
        headRows == IF hasHeader THEN rowsOf(querySelectorAll(thead[1], {"tr"})) ELSE <<>>
        tbody == IF querySelector(node, "tbody") # <<>>
                 THEN querySelector(node, "tbody")[1] ELSE node
        bodyTrs == IF hasHeader THEN trsOutsideThead(tbody)
                   ELSE querySelectorAll(tbody, {"tr"})
        rows == headRows \o SelectSeq(rowsOf(bodyTrs), NonEmpty)
    IN  IF rows # <<>>
        THEN << [PDFElement("table", <<>>) EXCEPT !.rows = rows, !.hasHeader = hasHeader] >>
        ELSE <<>>

\* case 'pre': codeEl?.textContent || el.textContent || ''
preElement(node) ==
    LET codeEl == querySelector(node, "code")
    IN  << PDFElement("pre", IF codeEl # <<>> /\ textContent(codeEl[1]) # <<>>
                             THEN textContent(codeEl[1])
                             ELSE textContent(node)) >>

\* processNode(node, listIndent, orderedList, listIndex): the elements it pushes
RECURSIVE processNode(_, _, _, _)
\* mutant of listChildren: the counter counts every child node
RECURSIVE listChildrenCountNodes(_, _, _, _, _)
listChildrenCountNodes(node, i, n, listIndent, isOrdered) ==
    IF i > Len(node.kids) THEN <<>>
    ELSE IF node.kids[i].tag = "li"
    THEN processNode(node.kids[i], listIndent + 1, isOrdered, i)
           \o listChildrenCountNodes(node, i + 1, n + 1, listIndent, isOrdered)
    ELSE listChildrenCountNodes(node, i + 1, n, listIndent, isOrdered)

\* case 'ul' / 'ol': childNodes.forEach from child i on, n the counter so far
RECURSIVE listChildren(_, _, _, _, _)
listChildren(node, i, n, listIndent, isOrdered) ==
    IF i > Len(node.kids) THEN <<>>
    ELSE IF node.kids[i].tag = "li"
    THEN processNode(node.kids[i], listIndent + 1, isOrdered, n + 1)
           \o listChildren(node, i + 1, n + 1, listIndent, isOrdered)
    ELSE listChildren(node, i + 1, n, listIndent, isOrdered)

\* mutant of nestedLists: the nested list starts one level deeper
RECURSIVE nestedListsDeeper(_, _, _)
nestedListsDeeper(node, i, listIndent) ==
    IF i > Len(node.kids) THEN <<>>
    ELSE (IF node.kids[i].tag \in {"ul", "ol"}
          THEN processNode(node.kids[i], listIndent + 1, node.kids[i].tag = "ol", 0)
          ELSE <<>>)
           \o nestedListsDeeper(node, i + 1, listIndent)

\* case 'li': the nested lists among the child nodes, from child i on
RECURSIVE nestedLists(_, _, _)
nestedLists(node, i, listIndent) ==
    IF i > Len(node.kids) THEN <<>>
    ELSE (IF node.kids[i].tag \in {"ul", "ol"}
          THEN processNode(node.kids[i], listIndent, node.kids[i].tag = "ol", 0)
          ELSE <<>>)
           \o nestedLists(node, i + 1, listIndent)

\* default: childNodes.forEach(child => processNode(child, listIndent, orderedList, listIndex))
RECURSIVE otherChildren(_, _, _, _, _)
otherChildren(node, i, listIndent, orderedList, listIndex) ==
    IF i > Len(node.kids) THEN <<>>
    ELSE processNode(node.kids[i], listIndent, orderedList, listIndex)
           \o otherChildren(node, i + 1, listIndent, orderedList, listIndex)

processNode(node, listIndent, orderedList, listIndex) ==
    CASE node.tag = "#text" ->
           IF trimTokens(node.chars) # <<>>
           THEN << PDFElement("p", trimTokens(node.chars)) >>
           ELSE <<>>
      [] node.tag \in {"h1", "h2"} -> << PDFElement(node.tag, textContent(node)) >>
      [] node.tag \in {"h3", "h4", "h5", "h6"} -> << PDFElement("h3", textContent(node)) >>
      [] node.tag \in {"p", "blockquote"} -> << PDFElement(node.tag, textContent(node)) >>
      [] node.tag = "pre" -> preElement(node)
      [] node.tag = "hr" -> << PDFElement("hr", <<>>) >>
      [] node.tag = "table" -> tableElement(node)
      [] node.tag = "ul" -> listChildren(node, 1, 0, listIndent, FALSE)
      [] node.tag = "ol" -> listChildren(node, 1, 0, listIndent, TRUE)
      [] node.tag = "li" ->
           << [PDFElement("li", textContent(node)) EXCEPT
                 !.indent = listIndent, !.ordered = orderedList, !.index = listIndex] >>
             \o nestedLists(node, 1, listIndent)
      [] OTHER -> otherChildren(node, 1, listIndent, orderedList, listIndex)

\* container.childNodes.forEach(child => processNode(child)), from child i on
RECURSIVE parseHTMLForPDF(_, _)
parseHTMLForPDF(nodes, i) ==
    IF i > Len(nodes) THEN <<>>
    ELSE processNode(nodes[i], 0, FALSE, 0) \o parseHTMLForPDF(nodes, i + 1)

\* ------------------------------------------------------ parser inputs
\* <li>token nested</li>: the item's own text, then the lists nested in it
Item(tok, nested) == Elem("li", <<TextNode(<<tok>>)>> \o nested)

\* a list of n items; the token of an item is its path: the path of the list
\* and the item's position in it
FlatList(tag, path, n) == Elem(tag, [j \in 1..n |-> Item(path \o <<j>>, <<>>)])
\* a list of n items whose item at pos holds the list inner
NestedIn(tag, path, n, pos, inner) ==
    Elem(tag, [j \in 1..n |-> Item(path \o <<j>>, IF j = pos THEN <<inner>> ELSE <<>>)])
\* the markup as a renderer prints it: a line break before every item and
\* after the last one
SpacedList(tag, path, n) ==
    Elem(tag, [j \in 1..(2 * n + 1) |->
                 IF j % 2 = 1 THEN TextNode(<<Space>>) ELSE Item(path \o <<j \div 2>>, <<>>)])

ListTags == {"ul", "ol"}
FlatLists(path) == { FlatList(tag, path, n) : tag \in ListTags, n \in 1..MaxItems }
Lists(path) ==
    FlatLists(path) \cup
    UNION { { NestedIn(tag, path, n, pos, inner) : inner \in FlatLists(path \o <<pos>>) } :
              tag \in ListTags, n \in 1..MaxItems, pos \in 1..MaxItems }
DeepLists ==
    { NestedIn(t1, <<1>>, 2, 2, NestedIn(t2, <<1, 2>>, 1, 1, FlatList(t3, <<1, 2, 1>>, 2))) :
        t1 \in ListTags, t2 \in ListTags, t3 \in ListTags }

\* one list, or two sibling lists
ListDocs ==
    { <<l>> : l \in Lists(<<1>>) \cup DeepLists } \cup
    { <<l1, l2>> : l1 \in Lists(<<1>>), l2 \in Lists(<<2>>) }

\* documents of the other node kinds
OtherDocs ==
    { << TextNode(<<Space, <<9>>, Space>>), TextNode(<<Space>>) >>,
      << Elem("h1", <<TextNode(<< <<9>> >>)>>), Elem("h2", <<TextNode(<< <<9>> >>)>>),
         Elem("h3", <<TextNode(<< <<9>> >>)>>), Elem("h6", <<TextNode(<< <<9>> >>)>>) >>,
      << Elem("p", <<TextNode(<< <<9>> >>), Elem("em", <<TextNode(<< <<8>> >>)>>)>>),
         Elem("blockquote", <<Elem("p", <<TextNode(<< <<9>> >>)>>)>>), Elem("hr", <<>>) >>,
      << Elem("pre", <<Elem("code", <<TextNode(<< <<9>>, <<8>> >>)>>)>>),
         Elem("pre", <<TextNode(<< <<9>> >>)>>) >>,
      << Elem("div", <<FlatList("ol", <<1>>, 2)>>), Item(<<2, 1>>, <<>>) >>,
      << SpacedList("ol", <<1>>, 2), SpacedList("ul", <<2>>, 2) >>,
      << Elem("ol", <<Elem("p", <<TextNode(<< <<9>> >>)>>), Item(<<1, 1>>, <<>>)>>) >>,
      << Elem("table", <<
            Elem("thead", <<Elem("tr", <<Elem("th", <<TextNode(<< <<9>> >>)>>)>>)>>),
            Elem("tbody", <<Elem("tr", <<Elem("td", <<TextNode(<< <<8>> >>)>>)>>),
                            Elem("tr", <<>>)>>) >>) >>,
      << Elem("table", <<Elem("tr", <<Elem("td", <<TextNode(<< <<8>> >>)>>),
                                       Elem("td", <<>>)>>)>>),
         Elem("table", <<>>) >>,
      << Elem("table", <<
            Elem("thead", <<Elem("tr", <<Elem("th", <<TextNode(<< <<9>> >>)>>)>>)>>),
            Elem("tbody", <<Elem("tr", <<Elem("td", <<TextNode(<< <<8>> >>)>>)>>)>>),
            Elem("tbody", <<Elem("tr", <<Elem("td", <<TextNode(<< <<7>> >>)>>)>>)>>) >>) >> }

ParseDocs == ListDocs \cup OtherDocs

\* ----------------------------------------------------- parser, as a run
\* parseHTMLForPDF(htmlContent) called on its own: html is the DOM of
\* htmlContent, elements the array it returns.
InitParse ==
    /\ pc = "parse"
    /\ html \in ParseDocs
    /\ theme = "light" /\ fontSize = "medium" /\ font = "inter"
    /\ elements = <<>>
    /\ idx = 0 /\ y = 0 /\ pages = <<>>
    /\ today = 1 /\ written = <<>> /\ logged = 0 /\ run = 1 /\ prev = <<>>
    /\ AppStarted(FilesAtStart)

Parse ==
    /\ pc = "parse"
    /\ elements' = parseHTMLForPDF(html, 1)
    /\ pc' = "parsed"
    /\ UNCHANGED <<app, html, theme, fontSize, font, idx, y, pages, env>>

NextParse == Parse

SpecParse == InitParse /\ [][NextParse]_vars

\* ------------------------------------------------ the application shell
\* AppContent (src/src/App.tsx) and the close button of the title bar
\* (TitleBar.handleClose).  Every handler runs to its next await in one
\* step; the await is kept in tasks with what the closure of the handler
\* captured when it was called: the function that waits (fn), the function
\* that waits for that one (caller), the call awaited (the dialogs "open" and
\* "message", the commands "read_file" and "save_file"), its result, and the
\* captured path, content (text), pendingFilePath and isDirty.  A command
\* finishes in the backend first (Respond), the function resumes in a later
\* step.  Two equal awaits in flight count as one.
Await(fn, caller, call, path, text, pending, dirty) ==
    [fn |-> fn, caller |-> caller, call |-> call, result |-> "pending",
     path |-> path, text |-> text, pending |-> pending, dirty |-> dirty, data |-> ""]

exported == <<pc, args, idx, y, pages, env>>

\* a dialog of the operating system is up: the window takes no input
NativeDialog == \E task \in tasks : task.call \in {"open", "message"}
Room(rest) == Cardinality(rest) < MaxTasks

\* loadFileDirect(path) up to its await (lines 77-79)
loadFileDirect(caller, path) ==
    Await("loadFileDirect", caller, "read_file", path, "", Null, FALSE)

\* loadFile(path) (lines 95-103) with the isDirty of its closure; rest are the
\* awaits in flight without the one the caller has just left
loadFile(dirty, path, rest) ==
    IF dirty
    THEN /\ pendingFilePath' = path /\ showUnsavedBeforeOpen' = TRUE
         /\ tasks' = rest
         /\ UNCHANGED isLoading
    ELSE /\ Room(rest)
         /\ tasks' = rest \cup {loadFileDirect("loadFile", path)}
         /\ isLoading' = TRUE
         /\ UNCHANGED <<pendingFilePath, showUnsavedBeforeOpen>>

\* a file is dropped on the window (line 148, line 274), the application is
\* started with a file (line 232) or a file is picked in the file explorer
\* (line 396): loadFile(path) of the last render
OpenRequest ==
    /\ ~closed
    /\ \E path \in Paths : loadFile(content # originalContent, path, tasks)
    /\ UNCHANGED <<filePath, content, originalContent, toast, closed, disk, exported>>

\* handleOpenFile up to await open(...) (lines 166-176)
handleOpenFile ==
    /\ ~closed /\ ~NativeDialog /\ Room(tasks)
    /\ tasks' = tasks \cup
          {Await("handleOpenFile", "", "open", Null, "", Null, content # originalContent)}
    /\ UNCHANGED <<filePath, content, originalContent, pendingFilePath,
                   showUnsavedBeforeOpen, isLoading, toast, closed, disk, exported>>

\* the open dialog is over (lines 178-180): a path, or null when cancelled
OpenDialogDone ==
    /\ ~closed
    /\ \E task \in tasks : \E selected \in Paths \cup {Null} :
          /\ task.call = "open"
          /\ IF selected # Null
             THEN loadFile(task.dirty, selected, tasks \ {task})
             ELSE /\ tasks' = tasks \ {task}
                  /\ UNCHANGED <<pendingFilePath, showUnsavedBeforeOpen, isLoading>>
    /\ UNCHANGED <<filePath, content, originalContent, toast, closed, disk, exported>>

\* the command of an invoke finishes in the backend, well or not: read_file
\* has read the file, save_file has written it
Respond ==
    /\ ~closed
    /\ \E task \in tasks : \E outcome \in {"ok", "err"} :
          /\ task.call \in {"read_file", "save_file"} /\ task.result = "pending"
          /\ tasks' = (tasks \ {task}) \cup
                {[task EXCEPT !.result = outcome,
                              !.data = IF task.call = "read_file" /\ outcome = "ok"
                                       THEN disk[task.path] ELSE ""]}
          /\ disk' = IF task.call = "save_file" /\ outcome = "ok"
                     THEN [disk EXCEPT ![task.path] = task.text] ELSE disk
    /\ UNCHANGED <<filePath, content, originalContent, pendingFilePath,
                   showUnsavedBeforeOpen, isLoading, toast, closed, exported>>

\* loadFileDirect after its await (lines 80-91), then the rest of the
\* function that awaited it (line 120, line 128)
LoadDone ==
    /\ ~closed
    /\ \E task \in tasks :
          /\ task.fn = "loadFileDirect" /\ task.result # "pending"
          /\ IF task.result = "ok"
             THEN /\ filePath' = task.path
                  /\ content' = task.data /\ originalContent' = task.data
                  /\ UNCHANGED toast
             ELSE /\ toast' = "Failed to open file"
                  /\ UNCHANGED <<filePath, content, originalContent>>
          /\ isLoading' = FALSE
          /\ pendingFilePath' =
                IF task.caller \in {"handleSaveAndOpen", "handleDiscardAndOpen"}
                THEN Null ELSE pendingFilePath
          /\ tasks' = tasks \ {task}
    /\ UNCHANGED <<showUnsavedBeforeOpen, closed, disk, exported>>

\* if (pendingFilePath) await loadFileDirect(pendingFilePath) (lines 118-119, 126-127)
pendingLoad(caller, pending) ==
    IF pending # Null THEN {loadFileDirect(caller, pending)} ELSE {}

\* Save in the unsaved-changes dialog: handleSaveAndOpen up to its first
\* await (lines 107-110, 118-119)
handleSaveAndOpen ==
    /\ ~closed /\ showUnsavedBeforeOpen /\ Room(tasks)
    /\ showUnsavedBeforeOpen' = FALSE
    /\ IF filePath # Null
       THEN /\ tasks' = tasks \cup
                  {Await("handleSaveAndOpen", "", "save_file", filePath, content,
                         pendingFilePath, TRUE)}
            /\ UNCHANGED isLoading
       ELSE /\ tasks' = tasks \cup pendingLoad("handleSaveAndOpen", pendingFilePath)
            /\ isLoading' = IF pendingFilePath # Null THEN TRUE ELSE isLoading
    /\ UNCHANGED <<filePath, content, originalContent, pendingFilePath, toast, closed,
                   disk, exported>>

\* mutant of afterSave: the pending file is loaded whatever the save gave
afterSaveEither(task) == pendingLoad("handleSaveAndOpen", task.pending)

\* what handleSaveAndOpen awaits after its save (lines 111-119): nothing
\* when the save failed (return, line 115)
afterSave(task) ==
    IF task.result = "ok" THEN pendingLoad("handleSaveAndOpen", task.pending) ELSE {}

\* handleSaveAndOpen after await invoke("save_file") (lines 111-119)
SaveAndOpenDone ==
    /\ ~closed
    /\ \E task \in tasks :
          /\ task.fn = "handleSaveAndOpen" /\ task.result # "pending"
          /\ IF task.result = "ok"
             THEN originalContent' = task.text /\ UNCHANGED toast
             ELSE toast' = "Failed to save file" /\ UNCHANGED originalContent
          /\ tasks' = (tasks \ {task}) \cup afterSave(task)
          /\ isLoading' = IF afterSave(task) # {} THEN TRUE ELSE isLoading
    /\ UNCHANGED <<filePath, content, pendingFilePath, showUnsavedBeforeOpen, closed,
                   disk, exported>>

\* Discard in the unsaved-changes dialog (lines 124-127)
handleDiscardAndOpen ==
    /\ ~closed /\ showUnsavedBeforeOpen /\ Room(tasks)
    /\ showUnsavedBeforeOpen' = FALSE
    /\ tasks' = tasks \cup pendingLoad("handleDiscardAndOpen", pendingFilePath)
    /\ isLoading' = IF pendingFilePath # Null THEN TRUE ELSE isLoading
    /\ UNCHANGED <<filePath, content, originalContent, pendingFilePath, toast, closed,
                   disk, exported>>

\* the unsaved-changes dialog is dismissed (lines 132-135)
handleCancelOpen ==
    /\ ~closed /\ showUnsavedBeforeOpen
    /\ showUnsavedBeforeOpen' = FALSE /\ pendingFilePath' = Null
    /\ UNCHANGED <<filePath, content, originalContent, isLoading, toast, closed, disk,
                   tasks, exported>>

\* the editor reports a change (lines 280-282); the editor is rendered once
\* a file is open (line 362), and the loading overlay (lines 428-435) covers
\* it without taking the keyboard from it
handleContentChange ==
    /\ ~closed /\ filePath # Null /\ ~NativeDialog
    /\ \E newContent \in Contents \ {content} : content' = newContent
    /\ UNCHANGED <<filePath, originalContent, pendingFilePath, showUnsavedBeforeOpen,
                   isLoading, toast, closed, disk, tasks, exported>>

\* handleSaveFile up to its await, for the filePath and content of its
\* closure (lines 212-214).  The branch for filePath = null (lines 188-211)
\* is never taken: the callers need content to save (line 326) or unsaved
\* changes (TitleBar line 37), content changes only in the editor or with a
\* loaded file, and both come with a filePath.
saveFile(caller, path, text) ==
    Await("handleSaveFile", caller, "save_file", path, text, Null, FALSE)

\* Ctrl+S (lines 324-328)
handleSaveFile ==
    /\ ~closed /\ ~NativeDialog /\ filePath # Null /\ Room(tasks)
    /\ tasks' = tasks \cup {saveFile("keydown", filePath, content)}
    /\ UNCHANGED <<filePath, content, originalContent, pendingFilePath,
                   showUnsavedBeforeOpen, isLoading, toast, closed, disk, exported>>

\* handleSaveFile after await invoke("save_file") (lines 215-220): it catches
\* the error of the save; then the rest of handleClose when it was the one
\* waiting (TitleBar line 56)
SaveFileDone ==
    /\ ~closed
    /\ \E task \in tasks :
          /\ task.fn = "handleSaveFile" /\ task.result # "pending"
          /\ IF task.result = "ok"
             THEN originalContent' = task.text /\ toast' = "File saved"
             ELSE toast' = "Failed to save file" /\ UNCHANGED originalContent
          /\ closed' = (task.caller = "handleClose")
          /\ tasks' = tasks \ {task}
    /\ UNCHANGED <<filePath, content, pendingFilePath, showUnsavedBeforeOpen, isLoading,
                   disk, exported>>

\* the close button: TitleBar.handleClose up to its await (lines 32-49, 69-71)
handleClose ==
    /\ ~closed /\ ~NativeDialog
    /\ IF content # originalContent
       THEN /\ Room(tasks)
            /\ tasks' = tasks \cup
                  {Await("handleClose", "", "message", filePath, content, Null, TRUE)}
            /\ UNCHANGED closed
       ELSE closed' = TRUE /\ UNCHANGED tasks
    /\ UNCHANGED <<filePath, content, originalContent, pendingFilePath,
                   showUnsavedBeforeOpen, isLoading, toast, disk, exported>>

\* the message dialog is over (TitleBar lines 51-68)
MessageDone ==
    /\ ~closed
    /\ \E task \in tasks : \E button \in {"Save", "Don't Save", "Cancel"} :
          /\ task.call = "message"
          /\ tasks' = (tasks \ {task}) \cup
                (IF button = "Save" THEN {saveFile("handleClose", task.path, task.text)}
                 ELSE {})
          /\ closed' = (button = "Don't Save")
    /\ UNCHANGED <<filePath, content, originalContent, pendingFilePath,
                   showUnsavedBeforeOpen, isLoading, toast, disk, exported>>

\* the application after its start
InitApp ==
    /\ pc = "app"
    /\ html = "" /\ theme = "light" /\ fontSize = "medium" /\ font = "inter"
    /\ elements = <<>>
    /\ idx = 0 /\ y = 0 /\ pages = <<>>
    /\ today = 1 /\ written = <<>> /\ logged = 0 /\ run = 1 /\ prev = <<>>
    /\ AppStarted(FilesAtStart)

NextApp ==
    \/ OpenRequest \/ handleOpenFile \/ OpenDialogDone
    \/ Respond \/ LoadDone
    \/ handleSaveAndOpen \/ SaveAndOpenDone \/ handleDiscardAndOpen \/ handleCancelOpen
    \/ handleContentChange
    \/ handleSaveFile \/ SaveFileDone
    \/ handleClose \/ MessageDone

SpecApp == InitApp /\ [][NextApp]_vars
\* =====================================================================

\* the footer pass of this call has run
Exported == pc \in {"dialog", "write"} \/ (pc = "returned" /\ ~isBlank(html))

IsDateStamp(c) == c.op = "text" /\ c.str[1] = "Exported from MarkLite on"
IsPageStamp(c) == c.op = "text" /\ c.str[1] = "Page"
IsContent(c) == c.blk > 0

\* the positions <<page, index>> of the commands of element k
CmdsOf(k) ==
    UNION { { <<p, j>> : j \in { i \in DOMAIN pages[p] : pages[p][i].blk = k } } :
              p \in DOMAIN pages }
Cmd(at) == pages[at[1]][at[2]]
PagesOf(k) == { at[1] : at \in CmdsOf(k) }

CeilDiv(a, b) == (a + b - 1) \div b

\* ---------------------------------------------------------------- C1
\* C1: after the export of a non-empty element sequence the document has
\* N >= 1 pages and every page i carries exactly one date stamp and exactly
\* one page stamp, which reads "Page i of N".
C1_FooterOnEveryPage ==
    (Exported /\ Len(elements) >= 1) =>
        /\ Len(pages) >= 1
        /\ \A i \in DOMAIN pages :
              /\ Cardinality({ j \in DOMAIN pages[i] : IsDateStamp(pages[i][j]) }) = 1
              /\ Cardinality({ j \in DOMAIN pages[i] : IsPageStamp(pages[i][j]) }) = 1
              /\ \A j \in DOMAIN pages[i] :
                    IsPageStamp(pages[i][j]) => pages[i][j].str = <<"Page", i, Len(pages)>>

C1_Witness == Exported /\ Len(elements) >= 1 /\ Len(pages) >= 3

\* ---------------------------------------------------------------- C2
AtomicTypes == {"h1", "h2", "h3", "li", "blockquote"}

\* C2: the draw commands of one heading, list item or blockquote are all on
\* one page (and a rendered one has emitted some).
C2_AtomicBlocksOnOnePage ==
    \A k \in DOMAIN elements :
        elements[k].type \in AtomicTypes =>
            /\ Cardinality(PagesOf(k)) <= 1
            /\ (pc = "layout" /\ k < idx) => Cardinality(PagesOf(k)) = 1

\* a block of several wrapped lines that did not fit was moved to a new page
C2_Witness ==
    \E k \in DOMAIN elements :
        /\ elements[k].type \in AtomicTypes /\ elements[k].lines > 1 /\ k > 1
        /\ \E p \in DOMAIN pages : p >= 2 /\ PagesOf(k) = {p} /\ pages[p][1].blk = k

\* ---------------------------------------------------------------- C3
\* C3 as claimed: the draw commands of one table are all on one page.
C3_TableOnOnePage ==
    \A k \in DOMAIN elements :
        elements[k].type = "table" => Cardinality(PagesOf(k)) <= 1

\* the positions of the commands of row r of table k, and the cursor the row
\* was drawn at (its cell borders are drawn at y - cellPadding)
RowCmds(cmds, r) == { at \in cmds : Cmd(at).part = r }
RowPlaces(cmds, r) ==
    { <<at[1], Cmd(at).y + 200>> :
        at \in { a \in RowCmds(cmds, r) : Cmd(a).op = "rect" /\ Cmd(a).style = "S" } }

\* C3 amended: the draw commands of one table row are all on one page, at a
\* cursor where the row fits; the row after it follows on the same page when it
\* fits there as well, and starts the next page when it does not.
C3_TableRowsOnOnePage ==
    \A k \in DOMAIN elements :
        (elements[k].type = "table" /\ fontSize \in FontSizes) =>
            \A cmds \in { CmdsOf(k) } \ { {} } : \A r \in DOMAIN elements[k].rows :
                /\ Cardinality({ at[1] : at \in RowCmds(cmds, r) }) <= 1
                /\ \A here1 \in RowPlaces(cmds, r) :
                      /\ margin <= here1[2]
                      /\ here1[2] + rowHeight(sz) <= BreakLimit
                      /\ \A here2 \in RowPlaces(cmds, r + 1) :
                            IF here1[2] + 2 * rowHeight(sz) > BreakLimit
                            THEN here2 = <<here1[1] + 1, margin>>
                            ELSE here2 = <<here1[1], here1[2] + rowHeight(sz)>>

\* a table whose rows are on two pages
C3_Witness ==
    \E k \in DOMAIN elements :
        /\ elements[k].type = "table"
        /\ Cardinality(PagesOf(k)) >= 2
        /\ pc = "returned"

\* ---------------------------------------------------------------- C4
\* <<page, y>> of line j of paragraph k
LinePlaces(cmds, j) == { <<at[1], Cmd(at).y>> : at \in { a \in cmds : Cmd(a).part = j } }

\* C4: every line of a paragraph is placed at a y with margin <= y and
\* y + lineH <= pageHeight - margin - footerHeight; the line after it follows
\* on the same page when it fits there, and is the first of the next page
\* exactly when it does not.
C4_ParagraphLinesFit ==
    \A k \in DOMAIN elements :
        (elements[k].type = "p" /\ fontSize \in FontSizes) =>
            \A cmds \in { CmdsOf(k) } \ { {} } : \A j \in 1..elements[k].lines :
                /\ Cardinality(LinePlaces(cmds, j)) = 1
                /\ \A here1 \in LinePlaces(cmds, j) :
                      /\ margin <= here1[2]
                      /\ here1[2] + baseLineH(sz) <= BreakLimit
                      /\ \A here2 \in LinePlaces(cmds, j + 1) :
                            IF here1[2] + 2 * baseLineH(sz) > BreakLimit
                            THEN here2 = <<here1[1] + 1, margin>>
                            ELSE here2 = <<here1[1], here1[2] + baseLineH(sz)>>

\* a paragraph broken between two of its lines
C4_Witness ==
    \E k \in DOMAIN elements :
        /\ elements[k].type = "p"
        /\ Cardinality(PagesOf(k)) >= 2
        /\ pc = "returned"

\* ---------------------------------------------------------------- C5
\* the non-footer commands of a page, in paint order
Content(pg) == SelectSeq(pg, IsContent)

\* C5: reading the non-footer commands page by page and in paint order, the
\* elements they come from appear in input order: on a page no command is
\* followed by one of an earlier element, and no page holds a command of an
\* earlier element than a page before it; every element rendered so far has
\* its commands there.
C5_BlockOrderPreserved ==
    /\ \A doc \in { [p \in DOMAIN pages |-> Content(pages[p])] } :
          /\ \A p \in DOMAIN doc :
                \A j \in 1..(Len(doc[p]) - 1) : doc[p][j].blk <= doc[p][j + 1].blk
          /\ \A p, q \in DOMAIN doc :
                (p < q /\ doc[p] # <<>> /\ doc[q] # <<>>) =>
                    doc[p][Len(doc[p])].blk <= doc[q][1].blk
    /\ pc = "layout" => \A k \in 1..(idx - 1) : CmdsOf(k) # {}

\* the first element runs over to a second page, which the second element shares
C5_Witness ==
    /\ Exported /\ Len(elements) >= 2
    /\ \E p \in DOMAIN pages : p >= 2 /\ {1, p} \subseteq PagesOf(1) /\ p \in PagesOf(2)

\* ---------------------------------------------------------------- C6
\* C6: an empty element sequence is laid out as exactly one page, and after
\* the footer pass that page holds exactly two commands, the date stamp and
\* the page stamp "Page 1 of 1".
C6_EmptySequenceOnePage ==
    (elements = <<>> /\ ~isBlank(html)) =>
        /\ pc = "layout" => pages = << <<>> >>
        /\ Exported =>
              /\ Len(pages) = 1
              /\ Len(pages[1]) = 2
              /\ \E j \in 1..2 : IsDateStamp(pages[1][j])
              /\ \E j \in 1..2 : IsPageStamp(pages[1][j]) /\ pages[1][j].str = <<"Page", 1, 1>>

C6_Witness == elements = <<>> /\ ~isBlank(html) /\ pc = "returned" /\ Len(pages) = 1

\* ---------------------------------------------------------------- C7
\* C7 as claimed: empty or blank input is not an error and the export gives
\* one finalized page bearing only the footer stamps.
C7_BlankYieldsFooterPage ==
    (html \in {"", "  "} /\ pc = "returned") =>
        /\ logged = 0
        /\ Len(pages) = 1
        /\ Len(pages[1]) = 2

\* C7 amended: empty or whitespace-only input is rejected: the export logs an
\* error and returns; no parse, no page, nothing handed to the save operation.
C7_BlankIsRejected ==
    html \in {"", "  "} =>
        /\ pc \in {"called", "returned"}
        /\ pages = <<>> /\ written = <<>>
        /\ pc = "returned" => logged = 1

C7_Witness == html = "  " /\ pc = "returned" /\ logged = 1

\* ---------------------------------------------------------------- C8
\* C8: with a theme or a size tier outside the closed sets the export fails
\* before any layout work: no draw command is emitted, the export does not
\* reach the save dialog and nothing is written.
C8_UnknownConfigFails ==
    (~isBlank(html) /\ (theme \notin Themes \/ fontSize \notin FontSizes)) =>
        /\ \A p \in DOMAIN pages : pages[p] = <<>>
        /\ pc \in {"called", "layout", "failed"}
        /\ written = <<>>
        /\ (pc = "layout" => idx = 1)

\* ---------------------------------------------------------------- C9
\* a page with the day of its date stamp blanked
Undated(pg) ==
    [j \in DOMAIN pg |-> IF IsDateStamp(pg[j])
                         THEN [pg[j] EXCEPT !.str = <<"Exported from MarkLite on">>]
                         ELSE pg[j]]
UndatedDoc(doc) == [i \in DOMAIN doc |-> Undated(doc[i])]
\* the days stamped on a document
DaysOf(doc) ==
    UNION { { doc[i][j].str[2] : j \in { n \in DOMAIN doc[i] : IsDateStamp(doc[i][n]) } } :
              i \in DOMAIN doc }

\* C9 as claimed: a second export of the same arguments gives the same pages.
C9_RepeatedRunsIdentical ==
    (run >= 2 /\ Exported) => pages = prev

\* C9 amended: a second export of the same arguments gives the same number of
\* pages and the same commands in the same order, but for the day written in
\* the date stamps, which is the day of each run; two exports on the same day
\* give identical pages.
C9_RepeatedRunsIdenticalButDate ==
    (run >= 2 /\ Exported) =>
        /\ Len(pages) = Len(prev)
        /\ UndatedDoc(pages) = UndatedDoc(prev)
        /\ DaysOf(pages) = {today}
        /\ DaysOf(prev) = {today} => pages = prev

\* a second export, of a document of several pages, on a later day
C9_Witness ==
    run >= 2 /\ Exported /\ Len(pages) >= 2 /\ DaysOf(prev) # DaysOf(pages)

\* --------------------------------------------------------------- C10
\* the element sequence is one pre of one-line source lines
CodeOnly ==
    /\ Len(elements) = 1 /\ elements[1].type = "pre"
    /\ \A j \in DOMAIN elements[1].code : elements[1].code[j] = 1

\* the number of code lines the split branch places on a page: line j of a
\* page is placed at margin + (j - 1) * lineH if that plus lineH + 4 does not
\* exceed the break threshold
CodeLinesPerPage(sizes) ==
    ((BreakLimit - margin - (codeLineH(sizes) + 400)) \div codeLineH(sizes)) + 1

\* C10: a pre of n one-line source lines that is the only element and is
\* taller than a page is laid out on ceil(n / L) pages, L the number of code
\* lines placed on a page, and every page stamp reports that total; 500 lines
\* at the medium tier give ceil(500 / 60) pages.
C10_CodePages ==
    (Exported /\ fontSize \in FontSizes /\ CodeOnly /\ preTooTall(elements[1], sz)) =>
        LET n == Len(elements[1].code)
            total == CeilDiv(n, CodeLinesPerPage(sz))
        IN  /\ Len(pages) = total
            /\ \A i \in DOMAIN pages :
                  \E j \in DOMAIN pages[i] :
                      IsPageStamp(pages[i][j]) /\ pages[i][j].str = <<"Page", i, total>>
            /\ (fontSize = "medium" /\ n = 500) => Len(pages) = CeilDiv(500, 60)

C10_Witness ==
    /\ pc = "returned" /\ fontSize = "medium" /\ CodeOnly
    /\ Len(elements[1].code) = 500 /\ Len(pages) = 9

\* --------------------------------------------------------------- C11
\* element k is a pre laid out by the branch that breaks between source lines
SplitPre(k) ==
    elements[k].type = "pre" /\ fontSize \in FontSizes /\ preTooTall(elements[k], sz)

\* the indexes on page p of the commands of element k of operation op
OpsOn(p, k, op) == { i \in DOMAIN pages[p] : pages[p][i].blk = k /\ pages[p][i].op = op }

\* C11 as claimed: every page a split pre is laid out on holds exactly one
\* fill for it, as high as the code lines placed on that page.
C11_OneRectPerPage ==
    \A k \in DOMAIN elements :
        SplitPre(k) =>
            \A p \in DOMAIN pages :
                OpsOn(p, k, "text") # {} =>
                    /\ Cardinality(OpsOn(p, k, "rect")) = 1
                    /\ \A i \in OpsOn(p, k, "rect") :
                          pages[p][i].h >= Cardinality(OpsOn(p, k, "text")) * codeLineH(sz)

\* C11 amended: a split pre gets one fill per source line: the fill of line j
\* is drawn right before the text of line j, on the same page, from 2mm above
\* its baseline and lineH + 2 high whatever the number of lines on the page,
\* and every text of the block follows its fill: a page holding n source lines
\* of the block holds n fills for it.
C11_OneRectPerCodeLine ==
    \A k \in DOMAIN elements :
        SplitPre(k) =>
            \A p \in DOMAIN pages : \A i \in DOMAIN pages[p] :
                pages[p][i].blk = k =>
                    IF pages[p][i].op = "rect"
                    THEN /\ pages[p][i].h = codeLineH(sz) + 200
                         /\ pages[p][i].style = "F"
                         /\ i + 1 \in DOMAIN pages[p]
                         /\ pages[p][i + 1].blk = k /\ pages[p][i + 1].op = "text"
                         /\ pages[p][i + 1].part = pages[p][i].part
                         /\ pages[p][i + 1].y = pages[p][i].y + 200
                    ELSE /\ pages[p][i].op = "text"
                         /\ i - 1 \in DOMAIN pages[p]
                         /\ pages[p][i - 1].blk = k /\ pages[p][i - 1].op = "rect"

\* a split pre on two pages, the first of which holds several of its lines
C11_Witness ==
    \E k \in DOMAIN elements :
        /\ SplitPre(k) /\ pc = "returned"
        /\ \E p, q \in DOMAIN pages :
              /\ p < q /\ OpsOn(q, k, "rect") # {}
              /\ Cardinality(OpsOn(p, k, "rect")) >= 2

\* --------------------------------------------------------------- C12
\* every node of a parsed document
AllNodes(doc) ==
    UNION { {doc[i]} \cup { descendants(doc[i])[j] : j \in DOMAIN descendants(doc[i]) } :
              i \in DOMAIN doc }
\* the li children of a list node, in document order
LiKids(node) ==
    LET IsLi(n) == n.tag = "li"
    IN  SelectSeq(node.kids, IsLi)
\* the parser inputs give every item its own text first, a token no other item has
OwnToken(li) == li.kids[1].chars[1]
\* the positions in elements of the ListItems made of the item li
ItemsOf(li) ==
    { k \in DOMAIN elements :
        elements[k].type = "li" /\ elements[k].text # <<>> /\ elements[k].text[1] = OwnToken(li) }

\* C12: for every <ol> of the document, nested or not, its i-th <li> child is
\* emitted as exactly one ListItem, with ordered = true and index = i, and
\* these ListItems come in the order of the children.
C12_OrdinalsRestartPerList ==
    pc = "parsed" =>
        \A node \in AllNodes(html) :
            node.tag = "ol" =>
                \A items \in { LiKids(node) } :
                    /\ \A i \in DOMAIN items :
                          /\ Cardinality(ItemsOf(items[i])) = 1
                          /\ \A k \in ItemsOf(items[i]) :
                                elements[k].ordered = TRUE /\ elements[k].index = i
                    /\ \A i, j \in DOMAIN items :
                          i < j => \A k \in ItemsOf(items[i]), m \in ItemsOf(items[j]) : k < m

\* two sibling ordered lists, the first with an ordered list nested in its
\* first item: three items of ordinal 1, and items of ordinal 2 after them
C12_Witness ==
    /\ pc = "parsed" /\ Len(html) = 2
    /\ html[1].tag = "ol" /\ html[2].tag = "ol"
    /\ Len(html[1].kids) = 2 /\ Len(html[1].kids[1].kids) = 2
    /\ html[1].kids[1].kids[2].tag = "ol"
    /\ Cardinality({ k \in DOMAIN elements :
                        elements[k].type = "li" /\ elements[k].ordered = TRUE
                        /\ elements[k].index = 1 }) = 3
    /\ \E k \in DOMAIN elements : elements[k].type = "li" /\ elements[k].index = 2

\* --------------------------------------------------------------- C13
\* kinds of command
Stroked(cmd) == cmd.op = "rect" /\ cmd.style = "S"
Filled(cmd) == cmd.op = "rect" /\ cmd.style = "F"
Texts(cmd) == cmd.op = "text"

\* C13: with c the largest cell count of the rows of a table, every row is
\* drawn as c stroked rectangles of the same width, side by side from the
\* left margin, and c texts of one line each, the text of a cell the row does
\* not have (or whose text is empty) being the empty one; the row gets a
\* filled rectangle and bold texts exactly when hasHeader is set and it is the
\* first row.
C13_TableCells ==
    \A k \in DOMAIN elements :
        (elements[k].type = "table" /\ fontSize \in FontSizes) =>
            \A cmds \in { CmdsOf(k) } \ { {} } : \A r \in DOMAIN elements[k].rows :
                LET rows == elements[k].rows
                    c == Max({ Len(rows[i]) : i \in DOMAIN rows })
                    row == RowCmds(cmds, r)
                    isFirstHeader == elements[k].hasHeader /\ r = 1
                IN  /\ Cardinality({ at \in row : Stroked(Cmd(at)) }) = c
                    /\ { Cmd(at).x : at \in { a \in row : Stroked(Cmd(a)) } }
                          = { margin + (col - 1) * ((maxWidth - 400) \div c) : col \in 1..c }
                    /\ \A at \in row :
                          Stroked(Cmd(at)) => Cmd(at).w = (maxWidth - 400) \div c
                    /\ Cardinality({ at \in row : Texts(Cmd(at)) }) = c
                    /\ \A at \in row :
                          Texts(Cmd(at)) =>
                              /\ Cmd(at).n = 1
                              /\ Cmd(at).font = (IF isFirstHeader THEN "bold" ELSE "normal")
                              /\ \E col \in 1..c :
                                    Cmd(at).str =
                                        IF col <= Len(rows[r]) /\ rows[r][col] > 0
                                        THEN <<"cell", r, col>> ELSE <<"empty", r, col>>
                    /\ Cardinality({ at \in row : Filled(Cmd(at)) })
                          = (IF isFirstHeader THEN 1 ELSE 0)

\* a table with a header row, a row of fewer cells than the widest and a cell
\* whose text wraps to two lines
C13_Witness ==
    \E k \in DOMAIN elements :
        /\ elements[k].type = "table" /\ elements[k].hasHeader /\ pc = "returned"
        /\ CmdsOf(k) # {}
        /\ \E r, q \in DOMAIN elements[k].rows :
              /\ Len(elements[k].rows[r]) < Len(elements[k].rows[q])
              /\ \E col \in DOMAIN elements[k].rows[q] : elements[k].rows[q][col] > 1

\* --------------------------------------------------------------- C14
\* the footer pass has stamped the page
Stamped(pg) ==
    /\ \E j \in DOMAIN pg : IsDateStamp(pg[j])
    /\ \E j \in DOMAIN pg : IsPageStamp(pg[j])

\* a step that hands a document to writeFile
Writes == written' # written

\* C14: in one export at most one document is handed to writeFile; nothing is
\* handed over before the save dialog has returned; the step that hands it
\* over is taken after the dialog gave a path and hands over the document with
\* every page stamped; the step taken when the dialog gives no path hands
\* over nothing.
C14_WrittenOnceAfterFooter ==
    /\ [](Len(written) <= 1)
    /\ [](pc \in {"called", "layout", "failed", "dialog", "write"} => written = <<>>)
    /\ [][Writes => /\ pc = "write" /\ pc' = "returned"
                    /\ written' = <<pages>>
                    /\ \A i \in DOMAIN pages : Stamped(pages[i])]_vars
    /\ [][(pc = "dialog" /\ pc' = "returned") => ~Writes]_vars

\* a document of several pages was written
C14_Witness ==
    /\ pc = "returned" /\ written = <<pages>> /\ Len(pages) >= 2
    /\ \A i \in DOMAIN pages : Stamped(pages[i])

\* --------------------------------------------------------------- C15
\* C15: an export of a non-blank document with a known theme and size tier,
\* whatever its elements, reaches the end of the footer pass: the save dialog
\* is shown for a document of at least one page, each page stamped.
C15_LayoutTerminates ==
    (pc = "called" /\ ~isBlank(html) /\ theme \in Themes /\ fontSize \in FontSizes)
        ~> (pc = "dialog" /\ Len(pages) >= 1 /\ \A i \in DOMAIN pages : Stamped(pages[i]))

\* the footer pass has ended for a sequence that holds a block taller than
\* the content area of a page
C15_Witness ==
    /\ pc = "dialog" /\ Len(pages) >= 2 /\ fontSize \in FontSizes
    /\ \E k \in DOMAIN elements :
          /\ elements[k].type \in {"li", "blockquote"}
          /\ elements[k].lines * baseLineH(sz) > BreakLimit - margin

\* --------------------------------------------------------------- C16
\* the step of the footer pass
FooterStep == pc = "layout" /\ pc' = "dialog"

\* C16: the footer pass leaves the number of pages unchanged and, on every
\* page, the commands that were there, in their order, and puts two more
\* commands after them, both of them texts.
C16_FooterOnlyAppends ==
    [][FooterStep =>
          /\ Len(pages') = Len(pages)
          /\ \A i \in DOMAIN pages :
                /\ Len(pages'[i]) = Len(pages[i]) + 2
                /\ SubSeq(pages'[i], 1, Len(pages[i])) = pages[i]
                /\ pages'[i][Len(pages[i]) + 1].op = "text"
                /\ pages'[i][Len(pages[i]) + 2].op = "text"]_vars

\* stamped pages, each with the commands of the layout before the stamps
C16_Witness ==
    /\ pc = "dialog" /\ Len(pages) >= 2
    /\ \A i \in DOMAIN pages :
          /\ Len(pages[i]) >= 4
          /\ IsContent(pages[i][1]) /\ IsContent(pages[i][2])
          /\ IsDateStamp(pages[i][Len(pages[i]) - 1]) /\ IsPageStamp(pages[i][Len(pages[i])])

\* --------------------------------------------------------------- C17
\* C17: an export made again on the same day with the same htmlContent, theme
\* and size tier and another font family gives the pages and draw commands of
\* the export before it.
C17_FontHasNoEffect ==
    (run >= 2 /\ Exported) => pages = prev

\* the second export, in another font family, of a document of several pages
C17_Witness ==
    /\ run = 2 /\ font # "inter" /\ Exported
    /\ Len(pages) >= 2 /\ pages = prev

\* --------------------------------------------------------------- C18
\* the cursor y at the draw call that emitted cmd, a command of an element of
\* the given type: a fill or a cell border is drawn from y - 2, the text of a
\* blockquote or of a cell at y + 2, the texts of an unsplit pre from
\* codeY = y + 2 on (y is then the top of its fill + 2), the rest at y
CursorAt(cmd, type, pg) ==
    IF cmd.op = "rect" THEN cmd.y + 200
    ELSE IF type \in {"blockquote", "table"} THEN cmd.y - 200
    ELSE IF type = "pre" /\ cmd.part > 0
                /\ ~\E i \in DOMAIN pg : pg[i].op = "rect" /\ pg[i].blk = cmd.blk
                                             /\ pg[i].part = cmd.part
    THEN Only({ pg[i].y + 200 : i \in { n \in DOMAIN pg : pg[n].op = "rect"
                                                              /\ pg[n].blk = cmd.blk } })
    ELSE cmd.y

\* C18 as claimed: every draw call of the layout is made with the cursor y
\* between margin and pageHeight - margin - footerHeight.
C18_CursorInContentArea ==
    \A p \in DOMAIN pages : \A i \in DOMAIN pages[p] :
        IsContent(pages[p][i]) =>
            \A at \in { CursorAt(pages[p][i], elements[pages[p][i].blk].type, pages[p]) } :
                margin <= at /\ at <= BreakLimit

\* --------------------------------------------------------------- C19
\* the height the case of element e takes when no page break falls in it
BlockHeight(e, sizes) ==
    CASE e.type = "h1" -> 800 + e.lines * (sizes.h1 * 40) + 300 + 500
      [] e.type = "h2" -> 600 + e.lines * (sizes.h2 * 40) + 200 + 400
      [] e.type = "h3" -> 400 + e.lines * (sizes.h3 * 40) + 300
      [] e.type = "p" -> e.lines * baseLineH(sizes) + 300
      [] e.type = "li" -> e.lines * baseLineH(sizes) + 100
      [] e.type = "pre" -> preBlockHeight(e, sizes) + 300
      [] e.type = "blockquote" -> e.lines * baseLineH(sizes) + 400 + 300
      [] e.type = "table" -> Len(e.rows) * rowHeight(sizes) + 300
      [] e.type = "hr" -> 1000

\* the lowest point of a command: the baseline of a text (of its first line),
\* the lower edge of a rectangle, the y of a line
LowestOf(cmd) == IF cmd.op = "rect" THEN cmd.y + cmd.h ELSE cmd.y

\* C19 as claimed: of a block whose height fits in the content area of an
\* empty page no text baseline, rectangle or line lies below
\* pageHeight - margin - footerHeight.
C19_NothingInFooterBand ==
    fontSize \in FontSizes =>
        \A p \in DOMAIN pages : \A i \in DOMAIN pages[p] :
            (/\ IsContent(pages[p][i])
             /\ BlockHeight(elements[pages[p][i].blk], sz) <= BreakLimit - margin) =>
                LowestOf(pages[p][i]) <= BreakLimit

\* --------------------------------------------------------------- C20
\* the step that lays out a pre at a known size tier
PreStep ==
    /\ pc = "layout" /\ idx <= Len(elements) /\ idx' = idx + 1
    /\ elements[idx].type = "pre" /\ fontSize \in FontSizes

\* a pre higher than the content area of a page
TallerThanPage(e) == preBlockHeight(e, sz) > BreakLimit - margin

\* the pages, counted in the document after the step, that hold commands of
\* the element the step laid out
PagesAfter ==
    { p \in DOMAIN pages' : \E i \in DOMAIN pages'[p] : pages'[p][i].blk = idx }

\* C20 as claimed: a pre that does not fit in the space left on the current
\* page, while its first source line does, has lines on the current page and
\* lines on the next.
C20_CodeAlwaysSplit ==
    [][(/\ PreStep
        /\ y + preBlockHeight(el, sz) > BreakLimit
        /\ y + codeLineH(sz) + 400 <= BreakLimit) =>
            {Len(pages), Len(pages) + 1} \subseteq PagesAfter]_vars

\* C20 amended: a pre higher than the content area of a page is split between
\* source lines: it starts on the current page if source line 1 fits there,
\* every source line is placed where it fits (lineH + 4), the next one after
\* it on the same page, or first on the next page when it does not fit.  A pre
\* no higher than the content area is never split: it is placed whole on the
\* current page if it fits there and whole on a new page if not.
C20_CodeSplitWhenTallerThanPage ==
    /\ [][PreStep =>
            IF TallerThanPage(el)
            THEN /\ y + codeLineH(sz) + 400 <= BreakLimit => Len(pages) \in PagesAfter
                 /\ y + codeLineH(sz) + 400 > BreakLimit => PagesAfter \cap (1..Len(pages)) = {}
            ELSE PagesAfter = { IF y + preBlockHeight(el, sz) > BreakLimit
                                THEN Len(pages) + 1 ELSE Len(pages) }]_vars
    /\ [](\A k \in DOMAIN elements :
            (elements[k].type = "pre" /\ fontSize \in FontSizes /\ TallerThanPage(elements[k])) =>
                \A p \in DOMAIN pages : \A i \in OpsOn(p, k, "rect") :
                    pages[p][i].part \in DOMAIN elements[k].code /\
                    LET at == pages[p][i].y + 200
                        j == pages[p][i].part
                        next == at + elements[k].code[j] * codeLineH(sz)
                    IN  /\ margin <= at /\ at + codeLineH(sz) + 400 <= BreakLimit
                        /\ (j < Len(elements[k].code) /\ pc # "failed") =>
                              IF next + codeLineH(sz) + 400 > BreakLimit
                              THEN /\ p + 1 \in DOMAIN pages
                                   /\ pages[p + 1] # <<>>
                                   /\ pages[p + 1][1] = [pages[p][i] EXCEPT
                                          !.y = margin - 200, !.part = j + 1]
                              ELSE /\ i + 2 \in DOMAIN pages[p]
                                   /\ pages[p][i + 2] = [pages[p][i] EXCEPT
                                          !.y = next - 200, !.part = j + 1])

\* after a blockquote a pre of three source lines was moved whole to a new
\* page although its first line fitted under the blockquote
C20_Witness ==
    /\ pc = "returned" /\ Len(elements) = 2 /\ fontSize \in FontSizes
    /\ elements[2].type = "pre" /\ ~TallerThanPage(elements[2])
    /\ elements[1].type = "blockquote"
    /\ PagesOf(2) = {Len(pages)} /\ PagesOf(1) = {Len(pages) - 1}
    /\ \A i \in DOMAIN pages[Len(pages) - 1] :
          pages[Len(pages) - 1][i].op = "rect" =>
              (pages[Len(pages) - 1][i].y + 200) + pages[Len(pages) - 1][i].h + 300
                + codeLineH(sz) + 400 <= BreakLimit

\* --------------------------------------------------------------- C21
HeadingTypes == {"h1", "h2", "h3"}
\* the commands of element k, in paint order (a heading is on one page)
CmdSeqOf(k) ==
    LET Of(cmd) == cmd.blk = k
    IN  IF PagesOf(k) = {} THEN <<>>
        ELSE SelectSeq(pages[Only(PagesOf(k))], Of)

\* C21 as claimed: every heading emits one bold text followed by one line
\* from margin to margin, the line of an h1 or h2 wider than that of an h3.
C21_EveryHeadingHasRule ==
    \A k \in DOMAIN elements :
        (elements[k].type \in HeadingTypes /\ fontSize \in FontSizes /\ PagesOf(k) # {}) =>
            \A cmds \in { CmdSeqOf(k) } :
                /\ Len(cmds) = 2
                /\ cmds[1].op = "text" /\ cmds[1].font = "bold"
                /\ cmds[2].op = "line"
                /\ cmds[2].x = margin /\ cmds[2].x2 = pageWidth - margin

\* C21 amended: every heading emits one bold text at the size of its level;
\* an h1 and an h2 emit after it one line from margin to margin beneath the
\* text, 0.5 wide for h1 and 0.3 wide for h2; an h3 emits no line.
C21_HeadingRules ==
    \A k \in DOMAIN elements :
        (elements[k].type \in HeadingTypes /\ fontSize \in FontSizes /\ PagesOf(k) # {}) =>
            \A cmds \in { CmdSeqOf(k) } :
                /\ Len(cmds) >= 1
                /\ cmds[1].op = "text" /\ cmds[1].font = "bold"
                /\ cmds[1].size = (CASE elements[k].type = "h1" -> sz.h1
                                      [] elements[k].type = "h2" -> sz.h2
                                      [] elements[k].type = "h3" -> sz.h3)
                /\ IF elements[k].type = "h3" THEN Len(cmds) = 1
                   ELSE /\ Len(cmds) = 2
                        /\ cmds[2].op = "line"
                        /\ cmds[2].x = margin /\ cmds[2].x2 = pageWidth - margin
                        /\ cmds[2].y > cmds[1].y
                        /\ cmds[2].lw = (IF elements[k].type = "h1" THEN 50 ELSE 30)

\* an h3 and an h1 or h2 were laid out
C21_Witness ==
    /\ pc = "returned" /\ fontSize \in FontSizes
    /\ \E k, m \in DOMAIN elements :
          /\ elements[k].type = "h3" /\ Len(CmdSeqOf(k)) = 1
          /\ elements[m].type \in {"h1", "h2"} /\ Len(CmdSeqOf(m)) = 2

\* --------------------------------------------------------------- C22
\* C22 as claimed: a list item of indent n is drawn from the offset n * 5 from
\* the left margin, for every n >= 0: its marker, the bullet or the ordinal,
\* at 4 to the left of that offset and its text, all wrapped lines of it, at
\* 2 to the right.
C22_OffsetIsIndentTimesStep ==
    \A k \in DOMAIN elements :
        (elements[k].type = "li" /\ fontSize \in FontSizes /\ PagesOf(k) # {}) =>
            \A cmds \in { CmdSeqOf(k) } :
                /\ Len(cmds) = 2
                /\ cmds[1].str = (IF elements[k].ordered
                                  THEN <<"ordinal", elements[k].index>> ELSE <<"bullet">>)
                /\ cmds[1].x = margin + elements[k].indent * 500 - 400
                /\ cmds[2].str = <<"text">> /\ cmds[2].n = elements[k].lines
                /\ cmds[2].x = margin + elements[k].indent * 500 + 200

\* --------------------------------------------------------------- C23
\* the items nested in the item li, at every depth, in document order
NestedItems(li) ==
    LET IsLi(n) == n.tag = "li"
    IN  SelectSeq(descendants(li), IsLi)
\* the items of the lists that are children of the item li
ChildItems(li) ==
    { n \in AllNodes(<<li>>) :
        \E i \in DOMAIN li.kids :
            li.kids[i].tag \in ListTags /\ \E j \in DOMAIN li.kids[i].kids : li.kids[i].kids[j] = n /\ n.tag = "li" }

\* C23: the items of a top-level list have indent 1; the ListItem of an item
\* is followed at once by the ListItems of all the items nested in it, at
\* every depth, and only then by the ListItem of its next sibling; the items
\* of a list nested in an item have the item's indent plus one.
C23_NestedItemsFollowParent ==
    pc = "parsed" =>
        /\ \A i \in DOMAIN html :
              html[i].tag \in ListTags =>
                  \A items \in { LiKids(html[i]) } :
                      \A j \in DOMAIN items :
                          /\ ItemsOf(items[j]) # {}
                          /\ \A k \in ItemsOf(items[j]) : elements[k].indent = 1
        /\ \A node \in AllNodes(html) :
              /\ node.tag = "li" =>
                    \A nested \in { NestedItems(node) } :
                        /\ Cardinality(ItemsOf(node)) = 1
                        /\ \A k \in ItemsOf(node) :
                              /\ UNION { ItemsOf(nested[j]) : j \in DOMAIN nested }
                                    = (k + 1)..(k + Len(nested))
                              /\ \A c \in ChildItems(node) :
                                    \A m \in ItemsOf(c) :
                                        elements[m].indent = elements[k].indent + 1
              /\ node.tag \in ListTags =>
                    \A items \in { LiKids(node) } :
                        \A j \in DOMAIN items :
                            j < Len(items) =>
                                \A k \in ItemsOf(items[j]), m \in ItemsOf(items[j + 1]) :
                                    m = k + Len(NestedItems(items[j])) + 1

\* a top-level list whose first item holds a nested list of two items and is
\* followed by a second item: indents 1, 2, 2, 1 in this order
C23_Witness ==
    /\ pc = "parsed" /\ Len(html) = 1 /\ html[1].tag \in ListTags
    /\ Len(html[1].kids) = 2 /\ Len(NestedItems(html[1].kids[1])) = 2
    /\ Len(elements) = 4
    /\ elements[1].text[1] = <<1, 1>> /\ elements[1].indent = 1
    /\ elements[2].text[1] = <<1, 1, 1>> /\ elements[2].indent = 2
    /\ elements[3].text[1] = <<1, 1, 2>> /\ elements[3].indent = 2
    /\ elements[4].text[1] = <<1, 2>> /\ elements[4].indent = 1

\* --------------------------------------------------------------- C24
IsTable(n) == n.tag = "table"
\* the rows of a table node: those of its header section, then every row
\* outside the header section that has cells, in document order
AllRows(table) ==
    (IF querySelector(table, "thead") # <<>>
     THEN rowsOf(querySelectorAll(querySelector(table, "thead")[1], {"tr"})) ELSE <<>>)
      \o SelectSeq(rowsOf(trsOutsideThead(table)), NonEmpty)
\* C24 as claimed: a document of tables is emitted as one Table per table
\* node that has rows, its rows the header rows followed by every body row
\* of the table, none that has cells left out.
C24_EveryRowEmitted ==
    (pc = "parsed" /\ html # <<>> /\ \A i \in DOMAIN html : IsTable(html[i])) =>
        \A expected \in { SelectSeq([i \in DOMAIN html |-> AllRows(html[i])], NonEmpty) } :
            /\ Len(elements) = Len(expected)
            /\ \A k \in DOMAIN elements :
                  k \in DOMAIN expected =>
                      elements[k].type = "table" /\ elements[k].rows = expected[k]

\* --------------------------------------------------------------- C25
\* C25: after the document is created, a step adds a page only while it lays
\* out an element, and every page it adds starts with a draw of that
\* element: no page comes from the gap after a block, and the footer pass,
\* which follows the gap of the last block, finds no page without content
\* behind the first.
C25_PagesAddedOnlyForPlacement ==
    [][/\ (Len(pages') > Len(pages) /\ pc # "called") =>
             /\ pc = "layout" /\ idx \in DOMAIN elements
             /\ \A p \in (Len(pages) + 1)..Len(pages') :
                   pages'[p] # <<>> /\ pages'[p][1].blk = idx
       /\ (pc = "layout" /\ pc' = "dialog") =>
             \A p \in 2..Len(pages) : \E i \in DOMAIN pages[p] : IsContent(pages[p][i])
      ]_vars

\* the gap after the last block has left the cursor below the limit, and the
\* document ends with the page that holds this block
C25_Witness ==
    /\ Exported /\ elements # <<>> /\ y > BreakLimit
    /\ \E i \in DOMAIN pages[Len(pages)] : pages[Len(pages)][i].blk = Len(elements)

\* --------------------------------------------------------------- C26
\* C26 as claimed: the export of a non-empty sequence of elements has no
\* blank page: every page holds a draw command that is not of the footer.
C26_NoBlankPage ==
    (Exported /\ elements # <<>>) =>
        \A p \in DOMAIN pages : \E i \in DOMAIN pages[p] : IsContent(pages[p][i])

\* --------------------------------------------------------------- C27
\* C27 as claimed: the text of every list item is emitted exactly once: the
\* ListItem of an item holds the item's own text only, and no other element
\* holds it.
C27_ItemTextOnce ==
    pc = "parsed" =>
        \A node \in AllNodes(html) :
            node.tag = "li" =>
                /\ \A k \in ItemsOf(node) : elements[k].text = <<OwnToken(node)>>
                /\ Cardinality({ k \in DOMAIN elements :
                                   \E i \in DOMAIN elements[k].text :
                                       elements[k].text[i] = OwnToken(node) }) = 1

\* --------------------------------------------------------------- C28
\* C28 as claimed: when Save was picked in the dialog of the close button,
\* the window is closed at the end of the save only if the save succeeded.
C28_ClosedOnlyIfSaved ==
    [][\A task \in tasks :
          (task.caller = "handleClose" /\ task \notin tasks' /\ closed') =>
              task.result = "ok"]_vars

\* --------------------------------------------------------------- C29
\* C29 as claimed: whenever a completed file read replaces the content of
\* the editor, the content it replaces is the last saved content, or the read
\* was started by Save or Discard of the unsaved-changes dialog.
C29_EditsNeverReplaced ==
    [][\A task \in tasks :
          (task.fn = "loadFileDirect" /\ task.result = "ok" /\ task \notin tasks') =>
              \/ content = originalContent
              \/ task.caller \in {"handleSaveAndOpen", "handleDiscardAndOpen"}]_vars

\* --------------------------------------------------------------- C30
\* C30: the step in which handleSaveAndOpen resumes after a failed save
\* starts no read of the pending file and leaves content, filePath and
\* originalContent as they are, a dirty document dirty.
C30_FailedSaveKeepsDocument ==
    [][\A task \in tasks :
          (task.fn = "handleSaveAndOpen" /\ task.result = "err" /\ task \notin tasks') =>
              /\ tasks' = tasks \ {task}
              /\ content' = content /\ filePath' = filePath
              /\ originalContent' = originalContent
              /\ (content # originalContent => content' # originalContent')]_vars

\* after the failed save of Save-and-open: the dialog is gone, the pending
\* path is still set, nothing is in flight and the document is dirty
C30_Witness ==
    /\ pc = "app" /\ ~closed
    /\ toast = "Failed to save file"
    /\ ~showUnsavedBeforeOpen /\ pendingFilePath # Null /\ tasks = {}
    /\ filePath # Null /\ pendingFilePath # filePath
    /\ content # originalContent /\ disk[filePath] = originalContent

====
